---- MODULE Spec2Model ----
(***************************************************************************)
(* Model of the calendar sync engine of src/src/gcal_cli.py: the retry     *)
(* executor (call_with_retry), the local sync store (ensure_db,            *)
(* db_record_event, db_existing_sigs, upsert_calendar), the calendar       *)
(* resolver (ensure_calendar_exists), the reconciliation engine            *)
(* (sync_course_with_db driven by cmd_sync, with cmd_reset_db), and the    *)
(* maintenance commands cmd_prune and cmd_dedupe.                          *)
(***************************************************************************)
EXTENDS Integers, Sequences, FiniteSets, TLC

VARIABLES
    rt,             \* call_with_retry: the locals of one running call
    rows,           \* cmd_sync: the rows load_csv_rows returned
    remoteCals,     \* remote service: the calendar list, in listing order
    remoteEvents,   \* remote service: the events of all calendars
    nextId,         \* remote service: the next id it hands out
    dbCalendars,    \* local store: the rows of table 'calendars'
    dbEvents,       \* local store: the rows of table 'events', in insert order
    run,            \* which cmd_sync invocation is in progress
    pc,             \* cmd_sync / sync_course_with_db: position in the code
    idx,            \* cmd_sync: index of the current course in `courses`
    loc,            \* sync_course_with_db: its locals for the current course
    faults,         \* number of failing responses the environment has given
    obs,            \* observations of the calls made (history, not program state)
    dd,             \* cmd_dedupe: its arguments, locals and the calls it made
    quota,          \* cmd_sync: the QuotaTracker, for each budget it may be configured with
    requests,       \* remote service: the requests it received from the current sync run
    writers,        \* two sync passes at work on one category and one store: their locals
    tool            \* the last maintenance command since the last sync run: its arguments and calls

vars == <<rt, rows, remoteCals, remoteEvents, nextId, dbCalendars, dbEvents,
          run, pc, idx, loc, faults, obs, dd, quota, requests, writers, tool>>

engineVars == <<rows, remoteCals, remoteEvents, nextId, dbCalendars, dbEvents,
                run, pc, idx, loc, faults, obs, dd, quota, requests, writers, tool>>

-----------------------------------------------------------------------------
(* Bounds of the model *)

MaxTriesBound == 5      \* largest max_tries argument tried for call_with_retry
MaxRows == 3            \* largest number of CSV rows
MaxFaults == 1          \* failing responses the environment may give in a behaviour

(* Program constants *)

DefaultMaxTries == 5    \* call_with_retry(max_tries=5)
DefaultBaseDelay == 10  \* call_with_retry(base_delay=10)
DelayCeiling == 300     \* min(delay * 2, 300)
FallbackDays == 180     \* timedelta(days=180)
DefaultPause == 300     \* --pause, default=300

Min(a, b) == IF a <= b THEN a ELSE b

RECURSIVE Pow2(_)
Pow2(n) == IF n = 0 THEN 1 ELSE 2 * Pow2(n - 1)

SeqToSet(s) == {s[i] : i \in 1..Len(s)}

-----------------------------------------------------------------------------
(* Error texts.  A text is a sequence of words; str.lower() maps each word  *)
(* to its lower-case form, and a substring test becomes a test on a run of  *)
(* consecutive lower-cased words.                                           *)

Lower(w) ==
    CASE w = "Quota"    -> "quota"
      [] w = "QUOTA"    -> "quota"
      [] w = "Limits"   -> "limits"
      [] w = "LIMITS"   -> "limits"
      [] w = "Limit"    -> "limit"
      [] w = "Exceeded" -> "exceeded"
      [] w = "Rate"     -> "rate"
      [] w = "Not"      -> "not"
      [] w = "Found"    -> "found"
      [] w = "Holiday"  -> "holiday"
      [] w = "HOLIDAY"  -> "holiday"
      [] w = "Task"     -> "task"
      [] w = "Birth"    -> "birth"
      [] w = "X"        -> "x"
      [] w = "A"        -> "a"
      [] w = "B"        -> "b"
      [] OTHER          -> w

LowerText(msg) == [i \in 1..Len(msg) |-> Lower(msg[i])]

\* 'quota' in s
HasQuota(s) == \E i \in 1..Len(s) : s[i] = "quota"

\* 'limits exceeded' in s
HasLimitsExceeded(s) ==
    \E i \in 1..(Len(s) - 1) : s[i] = "limits" /\ s[i + 1] = "exceeded"

\* the test of line 223 on str(e)
IsQuotaText(msg) ==
    HasQuota(LowerText(msg)) \/ HasLimitsExceeded(LowerText(msg))

\* What one invocation fn() of the wrapped operation can answer: a result,
\* an HttpError, or an exception of another class.
Texts ==
    { <<"Quota", "Exceeded">>,
      <<"usage", "LIMITS", "Exceeded">>,
      <<"user", "QUOTA">>,
      <<"Rate", "Limit", "Exceeded">>,
      <<"Limits", "Not", "Exceeded">>,
      <<"Not", "Found">> }

Responses ==
    {[kind |-> "ok", msg |-> <<>>]}
    \cup [kind : {"HttpError", "Exception"}, msg : Texts]

Labels == {"insert", "delete"}
BaseDelays == {0, 10, 160, 300, 400}

NoError == [type |-> "none", label |-> "", tries |-> 0, msg |-> <<>>]

\* line 91
PROTECTED_KEYWORDS ==
    <<"holiday", "birth", "task", "morocco", "semaine", "@", "primary">>

IsProtectedWholeName(name) ==
    /\ Len(name) = 1
    /\ \E k \in 1..Len(PROTECTED_KEYWORDS) : Lower(name[1]) = PROTECTED_KEYWORDS[k]

\* any(k in name.lower() for k in PROTECTED_KEYWORDS)
IsProtected(name) ==
    \E k \in 1..Len(PROTECTED_KEYWORDS), i \in 1..Len(name) :
        LowerText(name)[i] = PROTECTED_KEYWORDS[k]

-----------------------------------------------------------------------------
(* call_with_retry, one step per loop iteration *)

RtIdle ==
    [status |-> "idle", label |-> "", max_tries |-> 0, base_delay |-> 0,
     attempt |-> 0, delay |-> 0, calls |-> 0, sleeps |-> <<>>,
     nquota |-> 0, last |-> [kind |-> "ok", msg |-> <<>>], error |-> NoError]

\* line 216-217: entry, delay = base_delay
RtStart(label, max_tries, base_delay) ==
    [RtIdle EXCEPT !.status = "loop", !.label = label, !.max_tries = max_tries,
                   !.base_delay = base_delay, !.delay = base_delay]

RtBackoffButLast(r) ==
    IF r.attempt = r.max_tries THEN r
    ELSE [r EXCEPT !.sleeps = Append(r.sleeps, r.delay),
                   !.delay = Min(r.delay * 2, DelayCeiling)]

\* lines 225-226: time.sleep(delay); delay = min(delay * 2, 300)
RtBackoff(r) ==
    [r EXCEPT !.sleeps = Append(r.sleeps, r.delay),
              !.delay = Min(r.delay * 2, DelayCeiling)]

\* lines 221-228: is the failure retried?
RtRetriesAlways(resp) == resp.kind # "ok"

RtRetries(resp) == resp.kind = "HttpError" /\ IsQuotaText(resp.msg)

\* lines 218-228: one iteration of the for loop, fn() answering resp
RtIterate(r, resp) ==
    LET r1 == [r EXCEPT !.attempt = r.attempt + 1, !.calls = r.calls + 1,
                        !.last = resp]
    IN  IF resp.kind = "ok"
        THEN [r1 EXCEPT !.status = "returned"]
        ELSE IF RtRetries(resp)
        THEN [RtBackoff(r1) EXCEPT !.nquota = r.nquota + 1]
        ELSE [r1 EXCEPT !.status = "raised",
                        !.error = [type |-> resp.kind, label |-> "",
                                   tries |-> 0, msg |-> resp.msg]]

\* line 218: the loop goes on while attempt < max_tries
RtLoopGoesOnOneMore(r) == r.attempt <= r.max_tries

RtLoopGoesOn(r) == r.attempt < r.max_tries

\* line 229: raise RuntimeError(f"Failed {label} after {max_tries} retries")
RtExhausted(r) ==
    [r EXCEPT !.status = "exhausted",
              !.error = [type |-> "RuntimeError", label |-> r.label,
                         tries |-> r.max_tries, msg |-> <<"Failed">>]]

RetryCall ==
    /\ rt.status = "idle"
    /\ \E label \in Labels, m \in 0..MaxTriesBound, b \in BaseDelays :
          rt' = RtStart(label, m, b)
    /\ UNCHANGED engineVars

RetryAttempt ==
    /\ rt.status = "loop"
    /\ RtLoopGoesOn(rt)
    /\ \E resp \in Responses : rt' = RtIterate(rt, resp)
    /\ UNCHANGED engineVars

RetryExhaust ==
    /\ rt.status = "loop"
    /\ ~RtLoopGoesOn(rt)
    /\ rt' = RtExhausted(rt)
    /\ UNCHANGED engineVars

-----------------------------------------------------------------------------
(* call_with_retry as one call: fn() answers script[1], script[2], ...; an  *)
(* invocation beyond the end of the script succeeds.                        *)

RECURSIVE RtRun(_, _)
RtRun(r, script) ==
    IF r.status # "loop" THEN r
    ELSE IF ~RtLoopGoesOn(r) THEN RtExhausted(r)
    ELSE IF script = <<>> THEN RtIterate(r, [kind |-> "ok", msg |-> <<>>])
    ELSE RtRun(RtIterate(r, Head(script)), Tail(script))

call_with_retry(label, script) ==
    RtRun(RtStart(label, DefaultMaxTries, DefaultBaseDelay), script)

QuotaResp == [kind |-> "HttpError", msg |-> <<"Quota", "Exceeded">>]
OtherResp == [kind |-> "HttpError", msg |-> <<"Not", "Found">>]

\* The answers the remote service gives to the attempts of one wrapped call.
Scripts ==
    { <<>>,
      <<QuotaResp>>,
      <<OtherResp>>,
      <<QuotaResp, OtherResp>>,
      [i \in 1..DefaultMaxTries |-> QuotaResp] }

\* a script costs the environment one fault when the call does not return
ScriptCost(label, script) ==
    IF call_with_retry(label, script).status = "returned" THEN 0 ELSE 1

-----------------------------------------------------------------------------
(* Schedule rows and their parsing *)

SubjA1 == <<"A", " -- ", "Sec">>
SubjA2 == <<"A", " -- ", "TD">>
SubjB  == <<"B">>

\* The rows a CSV may hold: Subject, start and end slot, the all-day flag,
\* and whether the date/time fields parse (good).
RowPool ==
    << [Subject |-> SubjA1, sd |-> 1, ed |-> 2, all_day |-> FALSE, good |-> TRUE],
       [Subject |-> SubjA2, sd |-> 2, ed |-> 3, all_day |-> FALSE, good |-> TRUE],
       [Subject |-> SubjA1, sd |-> 3, ed |-> 4, all_day |-> TRUE,  good |-> TRUE],
       [Subject |-> SubjB,  sd |-> 1, ed |-> 2, all_day |-> TRUE,  good |-> TRUE],
       [Subject |-> SubjB,  sd |-> 0, ed |-> 0, all_day |-> FALSE, good |-> FALSE] >>

\* CSV files of 1..MaxRows rows, rows in pool order (a row may repeat), and
\* one file whose rows come in the other order of their courses
RowFiles ==
    UNION { { [i \in 1..n |-> RowPool[f[i]]] :
                f \in { g \in [1..n -> 1..Len(RowPool)] :
                          \A i \in 1..(n - 1) : g[i] <= g[i + 1] } } :
            n \in 1..MaxRows }
    \cup { <<RowPool[4], RowPool[1]>> }

\* the clock readings datetime.now() may give, in slots
NowChoices == {0, 2}

None == [k |-> "None", t |-> 0]

\* lines 182-192: (start, end, all_day); (None, None, False) when strptime fails
parse_dt(row) ==
    IF ~row.good THEN [s |-> None, e |-> None, all_day |-> FALSE]
    ELSE IF row.all_day
    THEN [s |-> [k |-> "date", t |-> row.sd], e |-> [k |-> "date", t |-> row.ed],
          all_day |-> TRUE]
    ELSE [s |-> [k |-> "datetime", t |-> row.sd],
          e |-> [k |-> "datetime", t |-> row.ed], all_day |-> FALSE]

\* date.isoformat() gives 'YYYY-MM-DD', datetime.isoformat() 'YYYY-MM-DDTHH:MM:SS'
isoformat(v) == IF v.k = "date" THEN <<"D", v.t>> ELSE <<"T", v.t>>

\* the instant a remote start/end string denotes
TimeOf(str) == str[2]

\* str.strip() on a sequence of words
RECURSIVE LStrip(_)
LStrip(s) == IF s # <<>> /\ Head(s) = " " THEN LStrip(Tail(s)) ELSE s

RECURSIVE RStrip(_)
RStrip(s) ==
    IF s # <<>> /\ s[Len(s)] = " " THEN RStrip(SubSeq(s, 1, Len(s) - 1)) ELSE s

Strip(s) == RStrip(LStrip(s))

\* first index where the separator followed by 'Sec' starts, 0 if none
\* (the word " -- " stands for the separator: space, em dash, space)
FindDashSec(s) ==
    LET hits == {i \in 1..(Len(s) - 1) : s[i] = " -- " /\ s[i + 1] = "Sec"}
    IN  IF hits = {} THEN 0 ELSE CHOOSE i \in hits : \A j \in hits : i <= j

\* first index where the separator starts, 0 if none
FindDash(s) ==
    LET hits == {i \in 1..Len(s) : s[i] = " -- "}
    IN  IF hits = {} THEN 0 ELSE CHOOSE i \in hits : \A j \in hits : i <= j

\* lines 176-180
course_from_subject(subj) ==
    IF subj = <<>> THEN <<"Unknown">>
    ELSE IF FindDashSec(subj) # 0
    THEN Strip(SubSeq(subj, 1, FindDashSec(subj) - 1))
    ELSE IF FindDash(subj) # 0
    THEN Strip(SubSeq(subj, 1, FindDash(subj) - 1))
    ELSE Strip(subj)

\* Python's order on strings, for the words used here
WordRank(w) ==
    CASE w = " "       -> 1
      [] w = " -- "     -> 2
      [] w = "A"       -> 3
      [] w = "B"       -> 4
      [] w = "Sec"     -> 5
      [] w = "TD"      -> 6
      [] w = "Unknown" -> 7
      [] OTHER         -> 8

RECURSIVE StrLess(_, _)
StrLess(a, b) ==
    IF b = <<>> THEN FALSE
    ELSE IF a = <<>> THEN TRUE
    ELSE IF WordRank(Head(a)) # WordRank(Head(b))
    THEN WordRank(Head(a)) < WordRank(Head(b))
    ELSE StrLess(Tail(a), Tail(b))

\* sorted(S) for a set of strings
RECURSIVE sorted(_)
sorted(S) ==
    IF S = {} THEN <<>>
    ELSE LET m == CHOOSE x \in S : \A y \in S \ {x} : StrLess(x, y)
         IN  <<m>> \o sorted(S \ {m})

by_course_every_row(rs, course) == rs

\* lines 838-841: by_course[course_from_subject(r['Subject'])].append(r)
RECURSIVE by_course(_, _)
by_course(rs, course) ==
    IF rs = <<>> THEN <<>>
    ELSE IF course_from_subject(Head(rs).Subject) = course
    THEN <<Head(rs)>> \o by_course(Tail(rs), course)
    ELSE by_course(Tail(rs), course)

desired(rs) == {course_from_subject(rs[i].Subject) : i \in 1..Len(rs)}

\* line 860
courses(rs) == sorted(desired(rs))

\* lines 372-385: the parseable rows with their signatures
RECURSIVE expected_of(_)
expected_of(rs) ==
    IF rs = <<>> THEN <<>>
    ELSE LET r == Head(rs)
             p == parse_dt(r)
         IN  IF p.s = None THEN expected_of(Tail(rs))
             ELSE <<[sig |-> <<r.Subject, isoformat(p.s), isoformat(p.e)>>,
                     row |-> r, all_day |-> p.all_day, s |-> p.s, e |-> p.e]>>
                  \o expected_of(Tail(rs))

\* line 390
expected_sigs_of(expected) == {expected[i].sig : i \in 1..Len(expected)}

\* lines 386-388 and 400-409: the refresh window (time_min, time_max)
Window(expected, now) ==
    LET timed == {i \in 1..Len(expected) : expected[i].s.k = "datetime"}
    IN  IF timed = {} THEN [lo |-> now, hi |-> now + FallbackDays]
        ELSE [lo |-> CHOOSE t \in {expected[i].s.t : i \in timed} :
                        \A j \in timed : t <= expected[j].s.t,
              hi |-> CHOOSE t \in {expected[i].e.t : i \in timed} :
                        \A j \in timed : t >= expected[j].e.t]

-----------------------------------------------------------------------------
(* QuotaTracker.  The runs of cmd_sync that differ only in the configured     *)
(* budget are carried side by side: quota[t] is the tracker of the run        *)
(* configured with budget t, for the budgets t under observation (DOMAIN      *)
(* quota), and requests counts the requests of those runs.  No statement of   *)
(* the program reads the tracker but the progress display (lines 471, 911),   *)
(* so the specifications that are not about it observe no budget.             *)

\* --quota / QUOTA_REMAINING: absent, already zero, small, large
QuotaTotals ==
    { None, [k |-> "int", t |-> 0], [k |-> "int", t |-> 2],
      [k |-> "int", t |-> 1000] }

\* lines 270-273
QuotaTracker(quota_total) == [quota_total |-> quota_total, used |-> 0]

\* line 858, for each of the budgets S
Trackers(S) == [t \in S |-> QuotaTracker(t)]

\* lines 275-276
use(q, n) == [q EXCEPT !.used = q.used + n]

remaining_unclamped(q) ==
    IF q.quota_total = None THEN None
    ELSE [k |-> "int", t |-> q.quota_total.t - q.used]

\* lines 278-282
remaining(q) ==
    IF q.quota_total = None THEN None
    ELSE [k |-> "int",
          t |-> IF q.quota_total.t - q.used >= 0
                THEN q.quota_total.t - q.used ELSE 0]

quota_truthy_while_left(q) ==
    q.quota_total # None /\ q.quota_total.t - q.used > 0

\* `if quota:` (lines 352, 367, 421, 463, 870, 883): a QuotaTracker defines
\* neither __bool__ nor __len__, so the object is true
quota_truthy(q) == TRUE

\* `if quota: quota.use(n)` on every tracker
Tick(n) ==
    [t \in DOMAIN quota |->
        IF quota_truthy(quota[t]) THEN use(quota[t], n) ELSE quota[t]]

\* the remote service receives k more requests
Hit(k) == IF DOMAIN quota = {} THEN requests ELSE requests + k

\* the tracker is a local of cmd_sync and the requests are those of the run:
\* when the step returns from cmd_sync (ended), the variables hold what the
\* next run starts with
Metered(ended, q, k) ==
    IF ended
    THEN [tracker |-> Trackers(DOMAIN quota), requests |-> 0]
    ELSE [tracker |-> q, requests |-> k]

-----------------------------------------------------------------------------
(* Local sync store *)

uq_event_sig_absent(events, cal_id, summary, start, end) == FALSE

\* line 264: UniqueConstraint('calendar_id', 'summary', 'start', 'end')
uq_event_sig(events, cal_id, summary, start, end) ==
    \E i \in 1..Len(events) :
        /\ events[i].calendar_id = cal_id
        /\ events[i].summary = summary
        /\ events[i].start = start
        /\ events[i].end = end

db_record_event_unchecked(events, cal_summary, cal_id, ev_id, summary, start, end, dbOk) ==
    [events |-> Append(events,
                   [calendar_summary |-> cal_summary, calendar_id |-> cal_id,
                    event_id |-> ev_id, summary |-> summary,
                    start |-> start, end |-> end]),
     ret |-> TRUE]

\* lines 289-305: the insert; IntegrityError and any other failure of the store
\* (dbOk = FALSE) give False
db_record_event(events, cal_summary, cal_id, ev_id, summary, start, end, dbOk) ==
    IF ~dbOk \/ uq_event_sig(events, cal_id, summary, start, end)
    THEN [events |-> events, ret |-> FALSE]
    ELSE [events |-> Append(events,
                        [calendar_summary |-> cal_summary, calendar_id |-> cal_id,
                         event_id |-> ev_id, summary |-> summary,
                         start |-> start, end |-> end]),
          ret |-> TRUE]

db_existing_sigs_any_calendar(events, cal_id) ==
    {<<events[i].summary, events[i].start, events[i].end>> : i \in 1..Len(events)}

\* lines 312-318
db_existing_sigs(events, cal_id) ==
    {<<events[i].summary, events[i].start, events[i].end>> :
        i \in {j \in 1..Len(events) : events[j].calendar_id = cal_id}}

upsert_calendar_marked_complete(cals, summary, gcal_id, expected_count, synced_count, complete) ==
    {c \in cals : c.summary # summary}
    \cup {[summary |-> summary, gcal_id |-> gcal_id,
           expected_count |-> expected_count, synced_count |-> synced_count,
           complete |-> TRUE]}

\* lines 320-345: insert the row, or overwrite the row of that summary
upsert_calendar(cals, summary, gcal_id, expected_count, synced_count, complete) ==
    {c \in cals : c.summary # summary}
    \cup {[summary |-> summary, gcal_id |-> gcal_id,
           expected_count |-> expected_count, synced_count |-> synced_count,
           complete |-> complete]}

-----------------------------------------------------------------------------
(* Remote calendar service *)

PageSize == 2           \* calendars per page of calendarList().list()

ListPageWithoutToken(cals, from) ==
    [items |-> SubSeq(cals, from, Min(from + PageSize - 1, Len(cals))),
     nextPageToken |-> 0]

\* calendarList().list(pageToken=token): the page starting at index `from`
ListPage(cals, from) ==
    [items |-> SubSeq(cals, from, Min(from + PageSize - 1, Len(cals))),
     nextPageToken |-> IF from + PageSize <= Len(cals) THEN from + PageSize ELSE 0]

FirstMatchHeadOnly(items, course_name) ==
    IF items # <<>> /\ items[1].summary = course_name THEN items[1].id ELSE 0

\* lines 353-356: the first item of the page whose summary is course_name
FirstMatch(items, course_name) ==
    LET hits == {i \in 1..Len(items) : items[i].summary = course_name}
    IN  IF hits = {} THEN 0
        ELSE items[CHOOSE i \in hits : \A j \in hits : i <= j].id

FindCalendarNever(cals, from, course_name) == 0

\* lines 350-359: the listing loop; 0 when no calendar has that name
RECURSIVE FindCalendar(_, _, _)
FindCalendar(cals, from, course_name) ==
    LET resp == ListPage(cals, from)
        cal_id == FirstMatch(resp.items, course_name)
    IN  IF resp.nextPageToken = 0 \/ cal_id # 0 THEN cal_id
        ELSE FindCalendar(cals, resp.nextPageToken, course_name)

\* lines 350-359: the number of pages the listing loop requests
RECURSIVE PagesListed(_, _, _)
PagesListed(cals, from, course_name) ==
    LET resp == ListPage(cals, from)
    IN  IF resp.nextPageToken = 0 \/ FirstMatch(resp.items, course_name) # 0
        THEN 1
        ELSE 1 + PagesListed(cals, resp.nextPageToken, course_name)

\* lines 867-876: the number of pages the pre-pass requests
RECURSIVE AllPages(_, _)
AllPages(cals, from) ==
    IF ListPage(cals, from).nextPageToken = 0 THEN 1
    ELSE 1 + AllPages(cals, ListPage(cals, from).nextPageToken)

\* events().list(calendarId, timeMin, timeMax, orderBy='startTime'): the events
\* that end after timeMin and start before timeMax
\* (the service hands back summary, start and end as events().insert received
\* them; ev['start'].get('dateTime') or ev['start'].get('date') is that string)
ListedEvents(evs, cal_id, w) ==
    {e \in evs : e.cal = cal_id /\ TimeOf(e.end) > w.lo /\ TimeOf(e.start) < w.hi}

RECURSIVE ByStartTime(_)
ByStartTime(S) ==
    IF S = {} THEN <<>>
    ELSE LET m == CHOOSE x \in S : \A y \in S :
                     \/ TimeOf(x.start) < TimeOf(y.start)
                     \/ (TimeOf(x.start) = TimeOf(y.start) /\ x.id <= y.id)
         IN  <<m>> \o ByStartTime(S \ {m})

RECURSIVE RecordListedAfresh(_, _, _, _)
RecordListedAfresh(events, items, course_name, cal_id) ==
    IF items = <<>> THEN SelectSeq(events, LAMBDA e : e.calendar_id # cal_id)
    ELSE LET ev == items[Len(items)]
         IN  db_record_event(
                RecordListedAfresh(events, SubSeq(items, 1, Len(items) - 1),
                                   course_name, cal_id),
                course_name, cal_id, ev.id, ev.summary, ev.start, ev.end,
                TRUE).events

\* lines 422-426: every listed event goes through db_record_event
RECURSIVE RecordListed(_, _, _, _)
RecordListed(events, items, course_name, cal_id) ==
    IF items = <<>> THEN events
    ELSE RecordListed(
            db_record_event(events, course_name, cal_id, Head(items).id,
                            Head(items).summary, Head(items).start,
                            Head(items).end, TRUE).events,
            Tail(items), course_name, cal_id)

\* calendars a user may already have when the first run starts
RemoteStarts ==
    { [cals |-> <<>>, events |-> {}, next |-> 1],
      [cals |-> <<[id |-> 1, summary |-> <<"Holiday", "s">>],
                  [id |-> 2, summary |-> <<"A", " ">>],
                  [id |-> 3, summary |-> <<"A">>],
                  [id |-> 6, summary |-> <<"A">>]>>,
       events |-> {[cal |-> 3, id |-> 4, summary |-> SubjA1,
                    start |-> <<"T", 1>>, end |-> <<"T", 2>>],
                   [cal |-> 3, id |-> 5, summary |-> <<"X">>,
                    start |-> <<"T", 2>>, end |-> <<"T", 3>>]},
       next |-> 7] }

-----------------------------------------------------------------------------
(* cmd_sync and sync_course_with_db *)

\* an exception as cmd_sync's except clauses receive it: the remote call it
\* came from, its class and text, and how many times the call was invoked
NoRaise == [op |-> "", type |-> "none", msg |-> <<>>, calls |-> 0]

\* no second pass at work beside cmd_sync
WritersOff == <<>>

\* no maintenance command run yet
ToolNone ==
    [cmd |-> "none", yes |-> FALSE, raised |-> FALSE,
     listed |-> <<>>,           \* the calendars the listing handed back, in order
     matches |-> <<>>,          \* those the command selected
     deleteCalls |-> <<>>,      \* ids passed to calendars().delete, in call order
     failed |-> {},             \* ids whose delete call ended with an exception
     course |-> <<>>,           \* upload_single_course: course_name
     listing |-> "none",        \* upload_single_course: how events().list ended
     fetched |-> {},            \* upload_single_course: sigs
     inserts |-> <<>>]          \* upload_single_course: the events().insert calls made

LocNone ==
    [course |-> <<>>, expected |-> <<>>, cal_id |-> 0, created |-> FALSE,
     existing_sigs |-> {}, missing |-> <<>>, inserted |-> 0]

\* cmd_dedupe before it is run
DdIdle ==
    [status |-> "idle", dry_run |-> FALSE, window |-> [lo |-> 0, hi |-> 0],
     calendars |-> <<>>, k |-> 0, total_dupes |-> 0, total_deleted |-> 0,
     scans |-> <<>>,            \* per scanned calendar: the listing and the duplicates found
     deleteCalls |-> {},        \* ids of the events passed to events().delete
     failed |-> 0,              \* delete calls that ended with an exception
     before |-> {},             \* the remote events when the command started
     pattern |-> <<>>,          \* args.pattern
     again |-> FALSE]           \* the command is run again, with the same arguments and
                                \* at once, after a run without --dry-run that came to
                                \* its end with no failed delete

ObsNone ==
    [passCreates |-> <<>>,      \* create-event calls of the current pass
     presentAtStart |-> {},     \* signatures in the remote calendar when the pass resolved it
     existingAtDiff |-> {},     \* existing_sigs as computed after the refresh (line 431)
     passFaults |-> 0,          \* failing responses during the current pass
     resolve |-> [name |-> <<>>, id |-> 0, created |-> FALSE, prior |-> {}],
     madeCals |-> {},           \* ids of the calendars ensure_calendar_exists created
     dbCalls |-> {},            \* db_record_event calls of the last step
     createCall |-> FALSE,      \* the resolver of the current pass issued a create-calendar call
     raised |-> NoRaise,        \* the exception the current pass ended with
     attempted |-> <<>>,        \* the passes of the run that have ended, with the sleeps after each
     last |-> [course |-> <<>>, kind |-> "none"],
     firstComplete |-> {},      \* courses stored complete when the first run ended
     dirty |-> FALSE,           \* reset-db after a run, or --delete-existing in the second
     delete_existing |-> FALSE]

Init ==
    /\ rt = RtIdle
    /\ rows \in RowFiles
    /\ \E r \in RemoteStarts :
          /\ remoteCals = r.cals
          /\ remoteEvents = r.events
          /\ nextId = r.next
    /\ dbCalendars = {}
    /\ dbEvents = <<>>
    /\ run = "none"
    /\ pc = "idle"
    /\ idx = 0
    /\ loc = LocNone
    /\ faults = 0
    /\ obs = ObsNone
    /\ dd = DdIdle
    /\ quota = Trackers({})
    /\ requests = 0
    /\ writers = WritersOff
    /\ tool = ToolNone

\* the signatures of the remote events of a calendar
RemoteSigs(evs, cal_id) ==
    {<<e.summary, e.start, e.end>> : e \in {x \in evs : x.cal = cal_id}}

LoopStopsOnError(kind, i, n) == i < n /\ kind = "ok"

\* lines 896-907: the for loop over enumerate(courses, 1) goes on to the next
\* course after pass i of n, however the pass ended (both except clauses fall
\* through to the end of the loop body)
LoopContinues(kind, i, n) == i < n

pauses_once(kind, i, n, pause) ==
    IF i < n THEN <<pause>> ELSE <<>>

PausesOnSuccessOnly(kind, i, n, pause) ==
    IF i < n /\ kind = "ok" THEN <<pause>> ELSE <<>>

\* lines 901-905 and 915-917: the time.sleep(args.pause) calls after pass i of n
pauses_after(kind, i, n, pause) ==
    (IF kind = "runtime" /\ i < n THEN <<pause>> ELSE <<>>)
    \o (IF i < n THEN <<pause>> ELSE <<>>)

EndCourseWithStateRow(kind, cals1, obs1) ==
    LET n == Len(courses(rows))
        cals2 == IF kind = "ok" THEN cals1
                 ELSE {c \in cals1 : c.summary # courses(rows)[idx]}
                      \cup {[summary |-> courses(rows)[idx], gcal_id |-> 0,
                             expected_count |-> 0, synced_count |-> 0,
                             complete |-> FALSE]}
        obs2 == [obs1 EXCEPT
                   !.last = [course |-> courses(rows)[idx], kind |-> kind],
                   !.attempted = Append(obs.attempted,
                       [course |-> courses(rows)[idx], kind |-> kind,
                        pauses |-> pauses_after(kind, idx, n, DefaultPause)])]
    IN  /\ dbCalendars' = cals2
        /\ loc' = LocNone
        /\ IF LoopContinues(kind, idx, n)
           THEN /\ idx' = idx + 1
                /\ pc' = "course"
                /\ obs' = obs2
           ELSE /\ idx' = 0
                /\ pc' = "idle"
                /\ obs' = IF run = "first"
                          THEN [obs2 EXCEPT !.firstComplete =
                                   {c.summary : c \in {x \in cals2 : x.complete}}]
                          ELSE obs2

\* lines 896-919: the pass for `course` has ended (kind: "ok", "runtime" for a
\* RuntimeError, "error" for any other exception); go to the next course or
\* end the run
EndCourse(kind, cals1, obs1) ==
    LET n == Len(courses(rows))
        obs2 == [obs1 EXCEPT
                   !.last = [course |-> courses(rows)[idx], kind |-> kind],
                   !.attempted = Append(obs.attempted,
                       [course |-> courses(rows)[idx], kind |-> kind,
                        pauses |-> pauses_after(kind, idx, n, DefaultPause)])]
    IN  /\ dbCalendars' = cals1
        /\ loc' = LocNone
        /\ IF LoopContinues(kind, idx, n)
           THEN /\ idx' = idx + 1
                /\ pc' = "course"
                /\ obs' = obs2
           ELSE /\ idx' = 0
                /\ pc' = "idle"
                /\ obs' = IF run = "first"
                          THEN [obs2 EXCEPT !.firstComplete =
                                   {c.summary : c \in {x \in cals1 : x.complete}}]
                          ELSE obs2

\* lines 832-863: a sync run starts
cmd_sync ==
    /\ pc = "idle"
    /\ run \in {"none", "first"}
    /\ \E delete_existing \in BOOLEAN :
          /\ pc' = IF delete_existing THEN "prepass" ELSE "course"
          /\ obs' = [obs EXCEPT !.delete_existing = delete_existing,
                                !.dirty = obs.dirty \/ (run = "first" /\ delete_existing),
                                !.dbCalls = {},
                                !.raised = NoRaise,
                                !.attempted = <<>>,
                                !.last = [course |-> <<>>, kind |-> "none"]]
    /\ run' = IF run = "none" THEN "first" ELSE "second"
    /\ idx' = 1
    /\ quota' = Trackers(DOMAIN quota)                   \* line 858
    /\ requests' = 0
    /\ tool' = ToolNone
    /\ UNCHANGED <<writers, dd, rt, rows, remoteCals, remoteEvents, nextId,
                   dbCalendars, dbEvents, loc, faults>>

\* lines 863-893: the --delete-existing pre-pass
DeleteExisting ==
    /\ pc = "prepass"
    /\ \/ \* the listing of line 869 raises: cmd_sync ends with the exception
          /\ faults < MaxFaults
          /\ faults' = faults + 1
          /\ pc' = "idle"
          /\ idx' = 0
          /\ obs' = [obs EXCEPT !.dbCalls = {}]
          /\ quota' = Metered(TRUE, quota, Hit(1)).tracker
          /\ requests' = Metered(TRUE, quota, Hit(1)).requests
          /\ UNCHANGED <<remoteCals, remoteEvents, dbCalendars, dbEvents>>
       \/ LET existing == {i \in 1..Len(remoteCals) :
                              remoteCals[i].summary \in desired(rows)}
          IN  \E failing \in SUBSET existing :
                 LET gone == {remoteCals[i].id : i \in existing \ failing}
                     keepIdx(i) == remoteCals[i].id \notin gone
                 IN  /\ faults + Cardinality(failing) <= MaxFaults
                     /\ faults' = faults + Cardinality(failing)
                     /\ remoteCals' =
                           LET F[i \in 0..Len(remoteCals)] ==
                                 IF i = 0 THEN <<>>
                                 ELSE IF keepIdx(i) THEN Append(F[i - 1], remoteCals[i])
                                 ELSE F[i - 1]
                           IN  F[Len(remoteCals)]
                     /\ remoteEvents' = {e \in remoteEvents : e.cal \notin gone}
                     /\ IF existing # {}
                        THEN /\ dbEvents' =
                                   LET G[i \in 0..Len(dbEvents)] ==
                                         IF i = 0 THEN <<>>
                                         ELSE IF dbEvents[i].calendar_summary \in desired(rows)
                                         THEN G[i - 1]
                                         ELSE Append(G[i - 1], dbEvents[i])
                                   IN  G[Len(dbEvents)]
                             /\ dbCalendars' =
                                   {c \in dbCalendars : c.summary \notin desired(rows)}
                        ELSE UNCHANGED <<dbEvents, dbCalendars>>
                     /\ pc' = "course"
                     /\ idx' = idx
                     /\ obs' = [obs EXCEPT !.dbCalls = {}]
                     \* lines 870 and 883: a use per page and per delete that returned
                     /\ quota' = Tick(AllPages(remoteCals, 1)
                                      + Cardinality(existing \ failing))
                     /\ requests' = Hit(AllPages(remoteCals, 1) + Cardinality(existing))
    /\ UNCHANGED <<tool, writers, dd, rt, rows, nextId, run, loc>>

\* an exception of a call made outside call_with_retry: it reaches the caller
\* as it is, after one invocation
Unwrapped(op, resp) ==
    [op |-> op, type |-> resp.kind, msg |-> resp.msg, calls |-> 1]

\* the exception a finished call_with_retry call r leaves its caller with
Wrapped(op, r) ==
    [op |-> op, type |-> r.error.type, msg |-> r.error.msg, calls |-> r.calls]

\* the errors a listing request may answer with
ListingErrors == {QuotaResp, OtherResp}

\* lines 372-397: the signatures, then ensure_calendar_exists (lines 347-368)
Resolving ==
    /\ pc = "course"
    /\ LET course == courses(rows)[idx]
           expected == expected_of(by_course(rows, course))
           prior == {remoteCals[i].id : i \in
                        {j \in 1..Len(remoteCals) : remoteCals[j].summary = course}}
           obs0 == [obs EXCEPT !.passCreates = <<>>, !.passFaults = 0,
                               !.presentAtStart = {}, !.existingAtDiff = {},
                               !.dbCalls = {}, !.createCall = FALSE,
                               !.raised = NoRaise,
                               !.resolve = ObsNone.resolve]
           loc0 == [LocNone EXCEPT !.course = course, !.expected = expected]
       IN  \/ \* calendarList().list() raises (line 351, not under call_with_retry)
              /\ faults < MaxFaults
              /\ faults' = faults + 1
              /\ \E resp \in ListingErrors :
                    EndCourse("error", dbCalendars,
                        [obs0 EXCEPT !.passFaults = 1,
                                     !.raised = Unwrapped("calendarList.list", resp)])
              /\ quota' = Metered(pc' = "idle", quota, Hit(1)).tracker
              /\ requests' = Metered(pc' = "idle", quota, Hit(1)).requests
              /\ UNCHANGED <<remoteCals, nextId>>
           \/ /\ FindCalendar(remoteCals, 1, course) # 0
              /\ LET cal_id == FindCalendar(remoteCals, 1, course)
                 IN  /\ loc' = [loc0 EXCEPT !.cal_id = cal_id, !.created = FALSE]
                     /\ obs' = [obs0 EXCEPT
                                  !.resolve = [name |-> course, id |-> cal_id,
                                               created |-> FALSE, prior |-> prior],
                                  !.presentAtStart = RemoteSigs(remoteEvents, cal_id)]
              /\ pc' = "refresh"
              /\ quota' = Tick(PagesListed(remoteCals, 1, course))    \* line 352
              /\ requests' = Hit(PagesListed(remoteCals, 1, course))
              /\ UNCHANGED <<remoteCals, nextId, faults, dbCalendars, idx>>
           \/ /\ FindCalendar(remoteCals, 1, course) = 0
              /\ \E script \in Scripts :
                    LET r == call_with_retry("create", script)
                        obs1 == [obs0 EXCEPT !.createCall = TRUE]
                    IN  /\ faults + ScriptCost("create", script) <= MaxFaults
                        /\ faults' = faults + ScriptCost("create", script)
                        /\ IF r.status = "returned"
                           THEN /\ remoteCals' = Append(remoteCals,
                                      [id |-> nextId, summary |-> course])
                                /\ nextId' = nextId + 1
                                /\ loc' = [loc0 EXCEPT !.cal_id = nextId,
                                                       !.created = TRUE]
                                /\ obs' = [obs1 EXCEPT
                                     !.resolve = [name |-> course, id |-> nextId,
                                                  created |-> TRUE, prior |-> prior],
                                     !.madeCals = obs.madeCals \cup {nextId}]
                                /\ pc' = "refresh"
                                /\ UNCHANGED <<dbCalendars, idx>>
                           ELSE /\ EndCourse(IF r.status = "exhausted"
                                             THEN "runtime" ELSE "error",
                                             dbCalendars,
                                             [obs1 EXCEPT
                                                !.passFaults = 1,
                                                !.resolve = [name |-> course, id |-> 0,
                                                    created |-> FALSE, prior |-> prior],
                                                !.raised = Wrapped("calendars.insert", r)])
                                /\ UNCHANGED <<remoteCals, nextId>>
                        \* line 352 per page, line 367 after the create returned
                        /\ quota' = Metered(pc' = "idle",
                               Tick(PagesListed(remoteCals, 1, course)
                                    + (IF r.status = "returned" THEN 1 ELSE 0)),
                               Hit(PagesListed(remoteCals, 1, course) + r.calls)).tracker
                        /\ requests' = Metered(pc' = "idle", quota,
                               Hit(PagesListed(remoteCals, 1, course) + r.calls)).requests
    /\ UNCHANGED <<tool, writers, dd, rt, rows, remoteEvents, dbEvents, run>>

\* line 438: the expected records whose signature is not in existing_sigs
RECURSIVE missing_of(_, _)
missing_of(expected, existing_sigs) ==
    IF expected = <<>> THEN <<>>
    ELSE IF Head(expected).sig \notin existing_sigs
    THEN <<Head(expected)>> \o missing_of(Tail(expected), existing_sigs)
    ELSE missing_of(Tail(expected), existing_sigs)

missing_skipping_first(expected, existing_sigs) ==
    IF missing_of(expected, existing_sigs) = <<>> THEN <<>>
    ELSE Tail(missing_of(expected, existing_sigs))

\* lines 438-443 as the upload loop sees them
missing_list(expected, existing_sigs) == missing_of(expected, existing_sigs)

\* the db_record_event calls of a refresh as seen from outside: the key, whether
\* a row with that key was in the table before the call, what the call
\* returned, and whether the table grew
RECURSIVE RecordCalls(_, _, _, _)
RecordCalls(events, items, course_name, cal_id) ==
    IF items = <<>> THEN {}
    ELSE LET ev == Head(items)
             rec == db_record_event(events, course_name, cal_id, ev.id,
                                    ev.summary, ev.start, ev.end, TRUE)
         IN  {[key |-> <<cal_id, ev.summary, ev.start, ev.end>>,
               dup |-> <<cal_id, ev.summary, ev.start, ev.end>> \in
                          {<<events[i].calendar_id, events[i].summary,
                             events[i].start, events[i].end>> :
                              i \in 1..Len(events)},
               ret |-> rec.ret,
               grew |-> Len(rec.events) > Len(events)]}
             \cup RecordCalls(rec.events, Tail(items), course_name, cal_id)

\* lines 399-442: refresh the store from the remote calendar, then diff
Refreshing ==
    /\ pc = "refresh"
    /\ \/ \* events().list() raises (line 413, not under call_with_retry)
          /\ faults < MaxFaults
          /\ faults' = faults + 1
          /\ \E resp \in ListingErrors :
                EndCourse("error", dbCalendars,
                          [obs EXCEPT !.passFaults = obs.passFaults + 1,
                                      !.dbCalls = {},
                                      !.raised = Unwrapped("events.list", resp)])
          /\ quota' = Metered(pc' = "idle", quota, Hit(1)).tracker
          /\ requests' = Metered(pc' = "idle", quota, Hit(1)).requests
          /\ UNCHANGED dbEvents
       \/ \E now \in NowChoices :
             LET w == Window(loc.expected, now)
                 items == ByStartTime(ListedEvents(remoteEvents, loc.cal_id, w))
                 events1 == RecordListed(dbEvents, items, loc.course, loc.cal_id)
                 existing_sigs == db_existing_sigs(events1, loc.cal_id)
                 expected_sigs == expected_sigs_of(loc.expected)
                 missing == missing_list(loc.expected, existing_sigs)
                 obs1 == [obs EXCEPT
                            !.dbCalls = RecordCalls(dbEvents, items, loc.course,
                                                    loc.cal_id),
                            !.existingAtDiff = existing_sigs]
             IN  /\ dbEvents' = events1
                 /\ faults' = faults
                 /\ IF expected_sigs \subseteq existing_sigs \/ missing = <<>>
                    THEN EndCourse("ok",
                            upsert_calendar(dbCalendars, loc.course, loc.cal_id,
                                Cardinality(expected_sigs),
                                Cardinality(existing_sigs), TRUE),
                            obs1)
                    ELSE /\ loc' = [loc EXCEPT !.existing_sigs = existing_sigs,
                                               !.missing = missing]
                         /\ pc' = "upload"
                         /\ obs' = obs1
                         /\ UNCHANGED <<dbCalendars, idx>>
                 /\ quota' = Metered(pc' = "idle", Tick(1), Hit(1)).tracker   \* line 421
                 /\ requests' = Metered(pc' = "idle", quota, Hit(1)).requests
    /\ UNCHANGED <<tool, writers, dd, rt, rows, remoteCals, remoteEvents, nextId, run>>

remaining_none_after_failure(missing, status) ==
    IF status = "returned" THEN Tail(missing) ELSE <<>>

\* lines 446-468: the records the upload loop still has to visit after the
\* call for Head(missing) ended with `status`; the except clause of line 467
\* takes every Exception, the RuntimeError of call_with_retry included
remaining_after(missing, status) == Tail(missing)

\* lines 446-477: one iteration of the upload loop; after the last one the
\* state of the calendar is persisted (lines 475-476)
Uploading ==
    /\ pc = "upload"
    /\ loc.missing # <<>>
    /\ LET x == Head(loc.missing)
           expected_sigs == expected_sigs_of(loc.expected)
       IN  \E script \in Scripts, dbOk \in BOOLEAN :
              LET r == call_with_retry("insert", script)
                  created == r.status = "returned"
                  cost == ScriptCost("insert", script) + (IF dbOk THEN 0 ELSE 1)
                  rec == db_record_event(dbEvents, loc.course, loc.cal_id, nextId,
                                         x.sig[1], x.sig[2], x.sig[3], dbOk)
                  events1 == IF created THEN rec.events ELSE dbEvents
                  rest == remaining_after(loc.missing, r.status)
                  existing_sigs == db_existing_sigs(events1, loc.cal_id)
                  obs1 == [obs EXCEPT
                             !.passCreates = Append(obs.passCreates,
                                                [sig |-> x.sig, ok |-> created,
                                                 status |-> r.status]),
                             !.passFaults = obs.passFaults + cost,
                             !.dbCalls = IF created
                                         THEN {[key |-> <<loc.cal_id, x.sig[1],
                                                          x.sig[2], x.sig[3]>>,
                                                dup |-> <<loc.cal_id, x.sig[1],
                                                          x.sig[2], x.sig[3]>> \in
                                                   {<<dbEvents[i].calendar_id,
                                                      dbEvents[i].summary,
                                                      dbEvents[i].start,
                                                      dbEvents[i].end>> :
                                                      i \in 1..Len(dbEvents)},
                                                ret |-> rec.ret,
                                                grew |-> Len(rec.events)
                                                         > Len(dbEvents)]}
                                         ELSE {}]
              IN  /\ created \/ dbOk
                  /\ faults + cost <= MaxFaults
                  /\ faults' = faults + cost
                  /\ remoteEvents' =
                        IF created
                        THEN remoteEvents \cup
                             {[cal |-> loc.cal_id, id |-> nextId,
                               summary |-> x.row.Subject,
                               start |-> x.sig[2], end |-> x.sig[3]]}
                        ELSE remoteEvents
                  /\ nextId' = IF created THEN nextId + 1 ELSE nextId
                  /\ dbEvents' = events1
                  /\ IF rest = <<>>
                     THEN EndCourse("ok",
                             upsert_calendar(dbCalendars, loc.course, loc.cal_id,
                                 Cardinality(expected_sigs),
                                 Cardinality(existing_sigs),
                                 expected_sigs \subseteq existing_sigs),
                             obs1)
                     ELSE /\ loc' = [loc EXCEPT
                                       !.missing = rest,
                                       !.inserted = IF created
                                                    THEN loc.inserted + 1
                                                    ELSE loc.inserted]
                          /\ obs' = obs1
                          /\ UNCHANGED <<pc, idx, dbCalendars>>
                  \* line 463: a use after the insert returned
                  /\ quota' = Metered(pc' = "idle",
                                      IF created THEN Tick(1) ELSE quota,
                                      Hit(r.calls)).tracker
                  /\ requests' = Metered(pc' = "idle", quota, Hit(r.calls)).requests
    /\ UNCHANGED <<tool, writers, dd, rt, rows, remoteCals, run>>

\* the ids of a sequence of calendars
IdsOf(cals) == [i \in 1..Len(cals) |-> cals[i].id]

\* the sequence cals without the calendars whose id is in gone
RECURSIVE WithoutCals(_, _)
WithoutCals(cals, gone) ==
    IF cals = <<>> THEN <<>>
    ELSE IF Head(cals).id \in gone THEN WithoutCals(Tail(cals), gone)
    ELSE <<Head(cals)>> \o WithoutCals(Tail(cals), gone)

\* lines 578-617: cmd_prune; every listed calendar whose name holds no
\* protected keyword is a candidate, and with --yes each is deleted (a failed
\* delete is logged and the loop goes on).  The command is run between the
\* two sync runs; before the first it would only change the calendars the
\* user starts with, which RemoteStarts enumerates.
MaxPruneRows == 1       \* largest number of CSV rows when cmd_prune is among the commands

cmd_prune ==
    /\ pc = "idle"
    /\ run = "first"
    /\ \/ \* the listing of line 588 raises: cmd_prune ends with the exception
          /\ faults < MaxFaults
          /\ faults' = faults + 1
          /\ tool' = [ToolNone EXCEPT !.cmd = "prune", !.raised = TRUE]
          /\ UNCHANGED <<remoteCals, remoteEvents, obs>>
       \/ \E yes \in BOOLEAN :
             LET candidates == {i \in 1..Len(remoteCals) :
                                  ~IsProtected(remoteCals[i].summary)}
             IN  \E failing \in SUBSET candidates :
                    LET gone == IF yes
                                THEN {remoteCals[i].id : i \in candidates \ failing}
                                ELSE {}
                    IN  /\ yes \/ failing = {}
                        /\ faults + Cardinality(failing) <= MaxFaults
                        /\ faults' = faults + Cardinality(failing)
                        /\ remoteCals' = WithoutCals(remoteCals, gone)
                        /\ remoteEvents' = {e \in remoteEvents : e.cal \notin gone}
                        /\ tool' = [ToolNone EXCEPT
                              !.cmd = "prune", !.yes = yes,
                              !.listed = remoteCals,
                              !.matches = SelectSeq(remoteCals,
                                             LAMBDA c : ~IsProtected(c.summary)),
                              !.deleteCalls =
                                 IF yes
                                 THEN IdsOf(SelectSeq(remoteCals,
                                               LAMBDA c : ~IsProtected(c.summary)))
                                 ELSE <<>>,
                              !.failed = {remoteCals[i].id : i \in failing}]
                        /\ obs' = IF gone = {} THEN obs
                                  ELSE [obs EXCEPT
                                          !.dirty = obs.dirty \/ run # "none",
                                          !.dbCalls = {},
                                          !.last = [course |-> <<>>, kind |-> "none"]]
    /\ UNCHANGED <<writers, dd, rt, rows, nextId, dbCalendars, dbEvents, run, pc,
                   idx, loc, quota, requests>>

\* lines 921-929
cmd_reset_db ==
    /\ pc = "idle"
    /\ dbEvents' = <<>>
    /\ dbCalendars' = {}
    /\ obs' = [obs EXCEPT !.dirty = obs.dirty \/ run # "none", !.dbCalls = {},
                          !.last = [course |-> <<>>, kind |-> "none"]]
    /\ UNCHANGED <<tool, writers, dd, rt, rows, remoteCals, remoteEvents, nextId,
                   run, pc, idx, loc, faults, quota, requests>>

Next ==
    \/ cmd_sync
    \/ DeleteExisting
    \/ Resolving
    \/ Refreshing
    \/ Uploading
    \/ cmd_reset_db

Spec == Init /\ [][Next]_vars

\* A sync run that has been started goes on: the process takes its next step
\* for as long as it has one.  Nothing obliges the user to start a run or to
\* reset the store.
MaxLiveRows == 1        \* largest number of CSV rows when progress is checked

RunStep == pc # "idle" /\ (DeleteExisting \/ Resolving \/ Refreshing \/ Uploading)

InitLive == Init /\ Len(rows) <= MaxLiveRows

SpecLive == InitLive /\ [][Next]_vars /\ WF_vars(RunStep)

-----------------------------------------------------------------------------
(* The sync runs with the quota tracker under observation *)

MaxQuotaRows == 2       \* largest number of CSV rows when the tracker is observed

InitQuota ==
    /\ rt = RtIdle
    /\ rows \in {f \in RowFiles : Len(f) <= MaxQuotaRows}
    /\ \E r \in RemoteStarts :
          /\ remoteCals = r.cals
          /\ remoteEvents = r.events
          /\ nextId = r.next
    /\ dbCalendars = {}
    /\ dbEvents = <<>>
    /\ run = "none"
    /\ pc = "idle"
    /\ idx = 0
    /\ loc = LocNone
    /\ faults = 0
    /\ obs = ObsNone
    /\ dd = DdIdle
    /\ quota = Trackers(QuotaTotals)
    /\ requests = 0
    /\ writers = WritersOff
    /\ tool = ToolNone

SpecQuota == InitQuota /\ [][Next]_vars

-----------------------------------------------------------------------------
(* The sync runs with cmd_prune run between them *)

InitPrune == Init /\ Len(rows) <= MaxPruneRows

NextPrune == Next \/ cmd_prune

SpecPrune == InitPrune /\ [][NextPrune]_vars

-----------------------------------------------------------------------------
(* cmd_dedupe *)

MaxDedupeEvents == 4    \* largest number of remote events when cmd_dedupe is run
DedupeDays == 365       \* timedelta(days=365)

\* calendars and events a user may have when cmd_dedupe is run
DedupeCals ==
    << [id |-> 1, summary |-> <<"A">>],
       [id |-> 2, summary |-> <<"B">>],
       [id |-> 3, summary |-> <<"Holiday", "s">>] >>

DedupePool ==
    { [cal |-> 1, id |-> 11, summary |-> <<"X">>,
       start |-> <<"T", 1>>, end |-> <<"T", 2>>],
      [cal |-> 1, id |-> 12, summary |-> <<"X">>,
       start |-> <<"T", 1>>, end |-> <<"T", 2>>],
      [cal |-> 1, id |-> 13, summary |-> <<"X", " ">>,
       start |-> <<"T", 1>>, end |-> <<"T", 2>>],
      [cal |-> 1, id |-> 14, summary |-> <<"Task", "X">>,
       start |-> <<"T", 2>>, end |-> <<"T", 3>>],
      [cal |-> 1, id |-> 15, summary |-> <<"Task", "X">>,
       start |-> <<"T", 2>>, end |-> <<"T", 3>>],
      [cal |-> 1, id |-> 16, summary |-> <<"X">>,
       start |-> <<"D", 1>>, end |-> <<"D", 2>>],
      [cal |-> 2, id |-> 17, summary |-> <<"X">>,
       start |-> <<"T", 1>>, end |-> <<"T", 2>>],
      [cal |-> 2, id |-> 18, summary |-> <<"X">>,
       start |-> <<"T", 1>>, end |-> <<"T", 2>>] }

\* --pattern: not given (<<>>), or a word to search for
Patterns == { <<>>, <<"a">> }

\* --time-min: not given, or an ISO datetime; --time-max: not given
TimeMinArgs == { None, [k |-> "datetime", t |-> 2] }
TimeMaxArgs == { None }

\* lines 626-634: the window of the scan
dedupe_window(now, time_min, time_max) ==
    [lo |-> IF time_min # None THEN time_min.t ELSE now - DedupeDays,
     hi |-> IF time_max # None THEN time_max.t ELSE now + DedupeDays]

\* re.search(pattern, name, re.IGNORECASE) for a pattern of one word
re_search(pattern, name) ==
    \E i \in 1..Len(name) : Lower(name[i]) = Lower(pattern[1])

\* lines 640-650: the calendars of all pages that pass the pattern
RECURSIVE dedupe_calendars(_, _, _)
dedupe_calendars(cals, from, pattern) ==
    LET resp == ListPage(cals, from)
        keep == SelectSeq(resp.items,
                    LAMBDA c : pattern = <<>> \/ re_search(pattern, c.summary))
    IN  IF resp.nextPageToken = 0 THEN keep
        ELSE keep \o dedupe_calendars(cals, resp.nextPageToken, pattern)

\* the orders in which events().list(orderBy='startTime') may hand back a set
\* of events: by start time, events of equal start time in any order
RECURSIVE ListingOrders(_)
ListingOrders(S) ==
    IF S = {} THEN {<<>>}
    ELSE UNION { { <<m>> \o t : t \in ListingOrders(S \ {m}) } :
                 m \in {x \in S : \A y \in S : TimeOf(x.start) <= TimeOf(y.start)} }

IsProtectedCaseSensitive(name) ==
    \E k \in 1..Len(PROTECTED_KEYWORDS), i \in 1..Len(name) :
        name[i] = PROTECTED_KEYWORDS[k]

\* line 689: any(k in summary.lower() for k in PROTECTED_KEYWORDS)
IsProtectedSummary(summary) == IsProtected(summary)

DedupeKeyUntrimmed(ev) == <<ev.summary, ev.start, ev.end>>

\* line 693: key = (summary.strip(), start, end)
DedupeKey(ev) == <<Strip(ev.summary), ev.start, ev.end>>

find_dupes_keeping_last(events, seen) ==
    SelectSeq(events, LAMBDA ev :
        /\ ~IsProtectedSummary(ev.summary)
        /\ \E i, j \in 1..Len(events) :
              /\ events[i] = ev
              /\ i < j
              /\ ~IsProtectedSummary(events[j].summary)
              /\ DedupeKey(events[j]) = DedupeKey(ev))

\* lines 684-697: the events whose key was seen before, in listing order
RECURSIVE find_dupes(_, _)
find_dupes(events, seen) ==
    IF events = <<>> THEN <<>>
    ELSE LET ev == Head(events)
         IN  IF IsProtectedSummary(ev.summary) THEN find_dupes(Tail(events), seen)
             ELSE IF DedupeKey(ev) \in seen
             THEN <<ev>> \o find_dupes(Tail(events), seen)
             ELSE find_dupes(Tail(events), seen \cup {DedupeKey(ev)})

RECURSIVE delete_dupes_ignoring_dry_run(_, _, _, _)
delete_dupes_ignoring_dry_run(dupes, scripts, dry_run, acc) ==
    IF dupes = <<>> THEN acc
    ELSE LET done == call_with_retry("delete", Head(scripts)).status = "returned"
         IN  delete_dupes_ignoring_dry_run(Tail(dupes), Tail(scripts), dry_run,
                [calls |-> acc.calls \cup {Head(dupes).id},
                 deleted |-> IF done THEN acc.deleted \cup {Head(dupes).id}
                             ELSE acc.deleted,
                 failed |-> IF done THEN acc.failed ELSE acc.failed + 1])

\* lines 706-717: the delete loop; scripts[i] holds the answers the service
\* gives to the delete of dupes[i]
RECURSIVE delete_dupes(_, _, _, _)
delete_dupes(dupes, scripts, dry_run, acc) ==
    IF dupes = <<>> THEN acc
    ELSE IF dry_run THEN delete_dupes(Tail(dupes), Tail(scripts), dry_run, acc)
    ELSE LET done == call_with_retry("delete", Head(scripts)).status = "returned"
         IN  delete_dupes(Tail(dupes), Tail(scripts), dry_run,
                [calls |-> acc.calls \cup {Head(dupes).id},
                 deleted |-> IF done THEN acc.deleted \cup {Head(dupes).id}
                             ELSE acc.deleted,
                 failed |-> IF done THEN acc.failed ELSE acc.failed + 1])

\* lines 619-655: cmd_dedupe starts: the window, then the calendar listing
cmd_dedupe ==
    /\ pc = "idle"
    /\ dd.status # "scan"
    /\ \E pattern \in Patterns, dry_run \in BOOLEAN, now \in NowChoices,
          time_min \in TimeMinArgs, time_max \in TimeMaxArgs :
          LET d0 == [DdIdle EXCEPT
                       !.dry_run = dry_run,
                       !.window = dedupe_window(now, time_min, time_max),
                       !.before = remoteEvents,
                       !.pattern = pattern,
                       !.again = /\ dd.status = "done"
                                 /\ ~dd.dry_run
                                 /\ dd.failed = 0
                                 /\ dd.pattern = pattern
                                 /\ dd.window = dedupe_window(now, time_min, time_max)]
              calendars == dedupe_calendars(remoteCals, 1, pattern)
          IN  \/ \* calendarList().list() raises: cmd_dedupe ends with the exception
                 /\ faults < MaxFaults
                 /\ faults' = faults + 1
                 /\ dd' = [d0 EXCEPT !.status = "raised"]
              \/ /\ faults' = faults
                 /\ dd' = IF calendars = <<>>
                          THEN [d0 EXCEPT !.status = "done"]
                          ELSE [d0 EXCEPT !.status = "scan",
                                          !.calendars = calendars, !.k = 1]
    /\ UNCHANGED <<rt, rows, remoteCals, remoteEvents, nextId, dbCalendars,
                   dbEvents, run, pc, idx, loc, obs, quota, requests, writers, tool>>

\* lines 660-717: the scan of one calendar; after the last calendar the totals
\* are reported (lines 719-722)
DedupeScanning ==
    /\ dd.status = "scan"
    /\ LET cal == dd.calendars[dd.k]
       IN  \/ \* events().list() raises: cmd_dedupe ends with the exception
              /\ faults < MaxFaults
              /\ faults' = faults + 1
              /\ dd' = [dd EXCEPT !.status = "raised"]
              /\ UNCHANGED remoteEvents
           \/ \E events \in ListingOrders(ListedEvents(remoteEvents, cal.id, dd.window)) :
                 LET dupes == find_dupes(events, {})
                 IN  \E scripts \in [1..Len(dupes) -> Scripts] :
                        LET res == delete_dupes(dupes, scripts, dd.dry_run,
                                       [calls |-> {}, deleted |-> {}, failed |-> 0])
                        IN  /\ dd.dry_run => \A i \in 1..Len(dupes) : scripts[i] = <<>>
                            /\ faults + res.failed <= MaxFaults
                            /\ faults' = faults + res.failed
                            /\ remoteEvents' = {e \in remoteEvents : e.id \notin res.deleted}
                            /\ dd' = [dd EXCEPT
                                 !.status = IF dd.k = Len(dd.calendars)
                                            THEN "done" ELSE "scan",
                                 !.k = dd.k + 1,
                                 !.total_dupes = dd.total_dupes + Len(dupes),
                                 !.total_deleted = dd.total_deleted
                                                   + Cardinality(res.deleted),
                                 !.scans = Append(dd.scans,
                                     [cal |-> cal.id, listed |-> events,
                                      dupes |-> [i \in 1..Len(dupes) |-> dupes[i].id]]),
                                 !.deleteCalls = dd.deleteCalls \cup res.calls,
                                 !.failed = dd.failed + res.failed]
    /\ UNCHANGED <<rt, rows, remoteCals, nextId, dbCalendars, dbEvents, run, pc,
                   idx, loc, obs, quota, requests, writers, tool>>

InitDedupe ==
    /\ rt = RtIdle
    /\ rows = <<RowPool[1]>>
    /\ remoteCals = DedupeCals
    /\ remoteEvents \in {S \in SUBSET DedupePool : Cardinality(S) <= MaxDedupeEvents}
    /\ nextId = 19
    /\ dbCalendars = {}
    /\ dbEvents = <<>>
    /\ run = "none"
    /\ pc = "idle"
    /\ idx = 0
    /\ loc = LocNone
    /\ faults = 0
    /\ obs = ObsNone
    /\ dd = DdIdle
    /\ quota = Trackers({})
    /\ requests = 0
    /\ writers = WritersOff
    /\ tool = ToolNone

NextDedupe == cmd_dedupe \/ DedupeScanning

SpecDedupe == InitDedupe /\ [][NextDedupe]_vars

-----------------------------------------------------------------------------
(* The calendar deleting commands, run after a sync run *)


\* the pattern argument of the delete command
DeletePatterns == { <<"a">>, <<"b">>, <<"holiday">> }

delete_loop_until_failure(matches, failing) ==
    LET bad == {i \in 1..Len(matches) : matches[i].id \in failing}
        last == IF bad = {} THEN Len(matches)
                ELSE CHOOSE i \in bad : \A j \in bad : i <= j
    IN  [calls |-> IdsOf(SubSeq(matches, 1, last)),
         gone |-> {matches[i].id : i \in 1..last} \ failing]

\* lines 571-576: one delete call per match; a call that raises is logged
\* and the loop goes on
delete_loop(matches, failing) ==
    [calls |-> IdsOf(matches),
     gone |-> {matches[i].id : i \in 1..Len(matches)} \ failing]

\* lines 543-576: cmd_delete
cmd_delete ==
    /\ pc = "idle"
    /\ run = "first"
    /\ \/ \* the listing of line 553 raises: cmd_delete ends with the exception
          /\ faults < MaxFaults
          /\ faults' = faults + 1
          /\ tool' = [ToolNone EXCEPT !.cmd = "delete", !.raised = TRUE]
          /\ UNCHANGED <<remoteCals, remoteEvents, obs>>
       \/ \E pattern \in DeletePatterns, yes \in BOOLEAN :
             LET matches == SelectSeq(remoteCals,
                               LAMBDA c : re_search(pattern, c.summary))
             IN  \E failing \in SUBSET {matches[i].id : i \in 1..Len(matches)} :
                    LET done == IF yes THEN delete_loop(matches, failing)
                                ELSE [calls |-> <<>>, gone |-> {}]
                    IN  /\ yes \/ failing = {}
                        /\ faults + Cardinality(failing) <= MaxFaults
                        /\ faults' = faults + Cardinality(failing)
                        /\ remoteCals' = WithoutCals(remoteCals, done.gone)
                        /\ remoteEvents' = {e \in remoteEvents : e.cal \notin done.gone}
                        /\ tool' = [ToolNone EXCEPT
                              !.cmd = "delete", !.yes = yes,
                              !.course = pattern,
                              !.listed = remoteCals,
                              !.matches = matches,
                              !.deleteCalls = done.calls,
                              !.failed = failing]
                        /\ obs' = IF done.gone = {} THEN obs
                                  ELSE [obs EXCEPT
                                          !.dirty = TRUE, !.dbCalls = {},
                                          !.last = [course |-> <<>>, kind |-> "none"]]
    /\ UNCHANGED <<writers, dd, rt, rows, nextId, dbCalendars, dbEvents, run, pc,
                   idx, loc, quota, requests>>

\* scripts/aggressive_prune.py, line 18
protected ==
    <<"tasks", "task", "birthday", "birthdays", "birth", "none", "primary", "@",
      "holiday">>

\* scripts/aggressive_prune.py, lines 26-32
keep(name) ==
    \E p \in 1..Len(protected), i \in 1..Len(name) :
        LowerText(name)[i] = protected[p]

\* scripts/aggressive_prune.py, lines 22-44: the calendars are deleted page
\* by page, and the next page is asked for after the deletes of this one.
\* `left` pages list before calendarList().list() raises.  What the service
\* answers to a page token once calendars of earlier pages are gone is its
\* own business: the token either stands for a position in the listing as it
\* now is (live), or for the listing as it was
RECURSIVE aggressive_pages(_, _, _, _, _)
aggressive_pages(cals, from, failing, live, left) ==
    IF left = 0 THEN [listed |-> <<>>, calls |-> <<>>, raised |-> TRUE]
    ELSE LET resp == ListPage(cals, from)
             calls == IdsOf(SelectSeq(resp.items, LAMBDA c : ~keep(c.summary)))
             gone == {calls[i] : i \in 1..Len(calls)} \ failing
             rest == IF live THEN WithoutCals(cals, gone) ELSE cals
             token == IF live /\ resp.nextPageToken > Len(rest)
                      THEN 0 ELSE resp.nextPageToken
         IN  IF resp.nextPageToken = 0
             THEN [listed |-> resp.items, calls |-> calls, raised |-> FALSE]
             ELSE LET more == IF token = 0
                              THEN [listed |-> <<>>, calls |-> <<>>,
                                    raised |-> left = 1]
                              ELSE aggressive_pages(rest, token, failing, live,
                                                    left - 1)
                  IN  [listed |-> resp.items \o more.listed,
                       calls |-> calls \o more.calls,
                       raised |-> more.raised]

\* scripts/aggressive_prune.py, the whole script
aggressive_prune ==
    /\ pc = "idle"
    /\ run = "first"
    /\ \E live \in BOOLEAN, left \in 0..(Len(remoteCals) + 1),
          failing \in SUBSET {remoteCals[i].id : i \in 1..Len(remoteCals)} :
          LET done == aggressive_pages(remoteCals, 1, failing, live, left)
              called == {done.calls[i] : i \in 1..Len(done.calls)}
              gone == called \ failing
              cost == Cardinality(failing) + (IF done.raised THEN 1 ELSE 0)
          IN  /\ failing \subseteq called
              /\ done.raised \/ left = Len(remoteCals) + 1
              /\ faults + cost <= MaxFaults
              /\ faults' = faults + cost
              /\ remoteCals' = WithoutCals(remoteCals, gone)
              /\ remoteEvents' = {e \in remoteEvents : e.cal \notin gone}
              /\ tool' = [ToolNone EXCEPT
                    !.cmd = "aggressive", !.raised = done.raised,
                    !.listed = done.listed,
                    !.matches = SelectSeq(done.listed, LAMBDA c : ~keep(c.summary)),
                    !.deleteCalls = done.calls,
                    !.failed = failing]
              /\ obs' = IF gone = {} THEN obs
                        ELSE [obs EXCEPT
                                !.dirty = TRUE, !.dbCalls = {},
                                !.last = [course |-> <<>>, kind |-> "none"]]
    /\ UNCHANGED <<writers, dd, rt, rows, nextId, dbCalendars, dbEvents, run, pc,
                   idx, loc, quota, requests>>

\* the first sync run of a session is under way or still to come
FirstRun == run = "none" \/ pc # "idle"

\* no deleting command has been run since the sync run
NoneYet == tool.cmd = "none"

NextDelete ==
    \/ FirstRun /\ cmd_sync
    \/ FirstRun /\ DeleteExisting
    \/ FirstRun /\ Resolving
    \/ FirstRun /\ Refreshing
    \/ FirstRun /\ Uploading
    \/ FirstRun /\ cmd_reset_db
    \/ NoneYet /\ cmd_prune
    \/ NoneYet /\ cmd_delete
    \/ NoneYet /\ aggressive_prune

SpecDelete == InitPrune /\ [][NextDelete]_vars

-----------------------------------------------------------------------------
(* The basic upload, run once after a sync run *)

MaxUploadRows == 2      \* largest number of CSV rows when the basic upload is run

upload_todo_whatever_fetched(rs, sigs) ==
    SelectSeq(rs, LAMBDA r : parse_dt(r).s # None)

\* lines 794-819: the rows the insert loop issues a call for: those that
\* parse and whose (Subject, start) is not in sigs
upload_todo(rs, sigs) ==
    SelectSeq(rs, LAMBDA r :
        /\ parse_dt(r).s # None
        /\ <<r.Subject, isoformat(parse_dt(r).s)>> \notin sigs)

\* the events the remote calendar gains from inserts[k..], ids from id on
RECURSIVE UploadedEvents(_, _, _, _)
UploadedEvents(inserts, k, cal_id, id) ==
    IF k > Len(inserts) THEN {}
    ELSE IF ~inserts[k].ok THEN UploadedEvents(inserts, k + 1, cal_id, id)
    ELSE {[cal |-> cal_id, id |-> id, summary |-> inserts[k].row.Subject,
           start |-> isoformat(parse_dt(inserts[k].row).s),
           end |-> isoformat(parse_dt(inserts[k].row).e)]}
         \cup UploadedEvents(inserts, k + 1, cal_id, id + 1)

\* lines 747-829: upload_single_course for one course of cmd_upload
upload_single_course ==
    /\ pc = "idle"
    /\ run = "first"
    /\ tool.cmd = "none"
    /\ \E course_name \in desired(rows), dry_run \in BOOLEAN :
          LET t0 == [ToolNone EXCEPT !.cmd = "upload", !.course = course_name,
                                     !.yes = ~dry_run]
              found == FindCalendar(remoteCals, 1, course_name)
          IN  \/ \* line 752: dry run
                 /\ dry_run
                 /\ tool' = t0
                 /\ UNCHANGED <<remoteCals, remoteEvents, nextId, faults>>
              \/ \* calendarList().list() raises (line 760)
                 /\ ~dry_run
                 /\ faults < MaxFaults
                 /\ faults' = faults + 1
                 /\ tool' = [t0 EXCEPT !.raised = TRUE]
                 /\ UNCHANGED <<remoteCals, remoteEvents, nextId>>
              \/ \* the calendar cannot be created: return (lines 777-779)
                 /\ ~dry_run
                 /\ found = 0
                 /\ faults < MaxFaults
                 /\ faults' = faults + 1
                 /\ tool' = t0
                 /\ UNCHANGED <<remoteCals, remoteEvents, nextId>>
              \/ /\ ~dry_run
                 /\ \E now \in NowChoices, listOk \in BOOLEAN :
                       LET cal_id == IF found # 0 THEN found ELSE nextId
                           id0 == IF found # 0 THEN nextId ELSE nextId + 1
                           sigs == IF listOk
                                   THEN {<<e.summary, e.start>> : e \in
                                           ListedEvents(remoteEvents, cal_id,
                                              [lo |-> now, hi |-> now + FallbackDays])}
                                   ELSE {}
                           todo == upload_todo(by_course(rows, course_name), sigs)
                       IN  \E scripts \in [1..Len(todo) -> Scripts] :
                              LET inserts == [k \in 1..Len(todo) |->
                                     [row |-> todo[k],
                                      ok |-> call_with_retry("insert", scripts[k]).status
                                                = "returned"]]
                                  bad == Cardinality({k \in 1..Len(todo) :
                                                         ~inserts[k].ok})
                                  good == Len(todo) - bad
                                  cost == bad + (IF listOk THEN 0 ELSE 1)
                              IN  /\ faults + cost <= MaxFaults
                                  /\ faults' = faults + cost
                                  /\ remoteCals' =
                                        IF found # 0 THEN remoteCals
                                        ELSE Append(remoteCals,
                                                [id |-> nextId, summary |-> course_name])
                                  /\ remoteEvents' = remoteEvents \cup
                                        UploadedEvents(inserts, 1, cal_id, id0)
                                  /\ nextId' = id0 + good
                                  /\ tool' = [t0 EXCEPT
                                        !.listing = IF listOk THEN "ok" ELSE "failed",
                                        !.fetched = sigs,
                                        !.inserts = inserts]
    /\ obs' = [obs EXCEPT !.dirty = TRUE, !.dbCalls = {},
                          !.last = [course |-> <<>>, kind |-> "none"]]
    /\ UNCHANGED <<writers, dd, rt, rows, dbCalendars, dbEvents, run, pc, idx, loc,
                   quota, requests>>

InitUpload == Init /\ Len(rows) <= MaxUploadRows

NextUpload ==
    \/ FirstRun /\ cmd_sync
    \/ FirstRun /\ DeleteExisting
    \/ FirstRun /\ Resolving
    \/ FirstRun /\ Refreshing
    \/ FirstRun /\ Uploading
    \/ FirstRun /\ cmd_reset_db
    \/ upload_single_course

SpecUpload == InitUpload /\ [][NextUpload]_vars

-----------------------------------------------------------------------------
(* Two passes of sync_course_with_db at work on the first category of the    *)
(* file, on one remote service and one local store (two cmd_sync processes   *)
(* started on the same CSV).  A step is one remote request or one store      *)
(* transaction (`with engine.begin()`), and the steps of the two interleave. *)

Writers == {1, 2}

MaxWriterRows == 2      \* largest number of CSV rows when two passes interleave

WriterStart == [pc |-> "resolve", cal_id |-> 0, listed |-> <<>>,
                missing |-> <<>>, pending |-> 0,
                rets |-> <<>>]      \* the db_record_event calls made, as seen from outside

WCourse == courses(rows)[1]
WExpected == expected_of(by_course(rows, WCourse))

\* what a db_record_event call looked like from outside: its key, whether a
\* row with that key was in the table when the transaction began, and what
\* the call returned
WriterRet(events, cal_id, sig, rec) ==
    [key |-> <<cal_id, sig[1], sig[2], sig[3]>>,
     dup |-> \E i \in 1..Len(events) :
                <<events[i].calendar_id, events[i].summary,
                  events[i].start, events[i].end>>
                   = <<cal_id, sig[1], sig[2], sig[3]>>,
     ret |-> rec.ret]

\* lines 347-368: ensure_calendar_exists
WriterResolve(p) ==
    /\ writers[p].pc = "resolve"
    /\ LET found == FindCalendar(remoteCals, 1, WCourse)
       IN  IF found # 0
           THEN /\ writers' = [writers EXCEPT ![p].pc = "list", ![p].cal_id = found]
                /\ UNCHANGED <<remoteCals, nextId>>
           ELSE /\ remoteCals' = Append(remoteCals,
                                    [id |-> nextId, summary |-> WCourse])
                /\ nextId' = nextId + 1
                /\ writers' = [writers EXCEPT ![p].pc = "list",
                                              ![p].cal_id = nextId]
    /\ UNCHANGED <<remoteEvents, dbCalendars, dbEvents, faults>>

\* lines 399-421: the listing of the refresh
WriterList(p) ==
    /\ writers[p].pc = "list"
    /\ \E now \in NowChoices :
          LET items == ByStartTime(ListedEvents(remoteEvents, writers[p].cal_id,
                                                Window(WExpected, now)))
          IN  writers' = [writers EXCEPT
                            ![p].listed = items,
                            ![p].pc = IF items = <<>> THEN "diff" ELSE "record"]
    /\ UNCHANGED <<remoteCals, remoteEvents, nextId, dbCalendars, dbEvents, faults>>

\* lines 422-426: one listed event goes through db_record_event
WriterRecord(p) ==
    /\ writers[p].pc = "record"
    /\ LET ev == Head(writers[p].listed)
           rec == db_record_event(dbEvents, WCourse, writers[p].cal_id, ev.id,
                                  ev.summary, ev.start, ev.end, TRUE)
       IN  /\ dbEvents' = rec.events
           /\ writers' = [writers EXCEPT
                 ![p].listed = Tail(writers[p].listed),
                 ![p].pc = IF Tail(writers[p].listed) = <<>> THEN "diff"
                           ELSE "record",
                 ![p].rets = Append(writers[p].rets,
                                WriterRet(dbEvents, writers[p].cal_id,
                                          <<ev.summary, ev.start, ev.end>>, rec))]
    /\ UNCHANGED <<remoteCals, remoteEvents, nextId, dbCalendars, faults>>

\* lines 431-443: existing_sigs, the early returns, the missing list
WriterDiff(p) ==
    /\ writers[p].pc = "diff"
    /\ LET existing_sigs == db_existing_sigs(dbEvents, writers[p].cal_id)
           expected_sigs == expected_sigs_of(WExpected)
           missing == missing_list(WExpected, existing_sigs)
       IN  IF expected_sigs \subseteq existing_sigs \/ missing = <<>>
           THEN /\ dbCalendars' = upsert_calendar(dbCalendars, WCourse,
                                     writers[p].cal_id, Cardinality(expected_sigs),
                                     Cardinality(existing_sigs), TRUE)
                /\ writers' = [writers EXCEPT ![p].pc = "done"]
           ELSE /\ writers' = [writers EXCEPT ![p].pc = "create",
                                              ![p].missing = missing]
                /\ UNCHANGED dbCalendars
    /\ UNCHANGED <<remoteCals, remoteEvents, nextId, dbEvents, faults>>

\* line 462: events().insert for the next missing record; a call that ends
\* with an exception is logged and the loop goes on (line 467)
WriterCreate(p) ==
    /\ writers[p].pc = "create"
    /\ LET x == Head(writers[p].missing)
       IN  \/ /\ remoteEvents' = remoteEvents \cup
                    {[cal |-> writers[p].cal_id, id |-> nextId,
                      summary |-> x.row.Subject,
                      start |-> x.sig[2], end |-> x.sig[3]]}
              /\ nextId' = nextId + 1
              /\ writers' = [writers EXCEPT ![p].pc = "store",
                                            ![p].pending = nextId]
              /\ faults' = faults
           \/ /\ faults < MaxFaults
              /\ faults' = faults + 1
              /\ writers' = [writers EXCEPT
                    ![p].missing = Tail(writers[p].missing),
                    ![p].pc = IF Tail(writers[p].missing) = <<>> THEN "finish"
                              ELSE "create"]
              /\ UNCHANGED <<remoteEvents, nextId>>
    /\ UNCHANGED <<remoteCals, dbCalendars, dbEvents>>

\* line 464: db_record_event for the event just created
WriterStore(p) ==
    /\ writers[p].pc = "store"
    /\ \E dbOk \in BOOLEAN :
          LET x == Head(writers[p].missing)
              rec == db_record_event(dbEvents, WCourse, writers[p].cal_id,
                                     writers[p].pending, x.sig[1], x.sig[2],
                                     x.sig[3], dbOk)
          IN  /\ dbOk \/ faults < MaxFaults
              /\ faults' = IF dbOk THEN faults ELSE faults + 1
              /\ dbEvents' = rec.events
              /\ writers' = [writers EXCEPT
                    ![p].missing = Tail(writers[p].missing),
                    ![p].pending = 0,
                    ![p].pc = IF Tail(writers[p].missing) = <<>> THEN "finish"
                              ELSE "create",
                    ![p].rets = Append(writers[p].rets,
                                   WriterRet(dbEvents, writers[p].cal_id, x.sig, rec))]
    /\ UNCHANGED <<remoteCals, remoteEvents, nextId, dbCalendars>>

\* lines 475-476: the state of the calendar is persisted
WriterFinish(p) ==
    /\ writers[p].pc = "finish"
    /\ LET existing_sigs == db_existing_sigs(dbEvents, writers[p].cal_id)
           expected_sigs == expected_sigs_of(WExpected)
       IN  dbCalendars' = upsert_calendar(dbCalendars, WCourse, writers[p].cal_id,
                              Cardinality(expected_sigs), Cardinality(existing_sigs),
                              expected_sigs \subseteq existing_sigs)
    /\ writers' = [writers EXCEPT ![p].pc = "done"]
    /\ UNCHANGED <<remoteCals, remoteEvents, nextId, dbEvents, faults>>

InitWriters ==
    /\ rt = RtIdle
    /\ rows \in {f \in RowFiles : Len(f) <= MaxWriterRows}
    /\ \E r \in RemoteStarts :
          /\ remoteCals = r.cals
          /\ remoteEvents = r.events
          /\ nextId = r.next
    /\ dbCalendars = {}
    /\ dbEvents = <<>>
    /\ run = "none"
    /\ pc = "idle"
    /\ idx = 0
    /\ loc = LocNone
    /\ faults = 0
    /\ obs = ObsNone
    /\ dd = DdIdle
    /\ quota = Trackers({})
    /\ requests = 0
    /\ writers = [p \in Writers |-> WriterStart]
    /\ tool = ToolNone

\* what the two passes leave alone
WritersFrame == UNCHANGED <<rt, rows, run, pc, idx, loc, obs, dd, quota, requests, tool>>

NextWriters ==
    \E p \in Writers :
       \/ WriterResolve(p) /\ WritersFrame
       \/ WriterList(p) /\ WritersFrame
       \/ WriterRecord(p) /\ WritersFrame
       \/ WriterDiff(p) /\ WritersFrame
       \/ WriterCreate(p) /\ WritersFrame
       \/ WriterStore(p) /\ WritersFrame
       \/ WriterFinish(p) /\ WritersFrame

SpecWriters == InitWriters /\ [][NextWriters]_vars

-----------------------------------------------------------------------------
(* The retry executor on its own: any max_tries, base delay and answers *)

EngineQuiet ==
    /\ rows = <<RowPool[1]>>
    /\ remoteCals = <<>>
    /\ remoteEvents = {}
    /\ nextId = 1
    /\ dbCalendars = {}
    /\ dbEvents = <<>>
    /\ run = "none"
    /\ pc = "idle"
    /\ idx = 0
    /\ loc = LocNone
    /\ faults = 0
    /\ obs = ObsNone
    /\ dd = DdIdle
    /\ quota = Trackers({})
    /\ requests = 0
    /\ writers = WritersOff
    /\ tool = ToolNone

InitRetry == rt = RtIdle /\ EngineQuiet

NextRetry == RetryCall \/ RetryAttempt \/ RetryExhaust

SpecRetry == InitRetry /\ [][NextRetry]_vars

-----------------------------------------------------------------------------
(* Notions the claims are stated in, written out on the state *)

\* the records of a course: its rows whose date fields parse
RecordsOf(course) ==
    {i \in 1..Len(rows) :
        /\ rows[i].good
        /\ course = (IF \E k \in 1..Len(rows[i].Subject) : rows[i].Subject[k] = " -- "
                     THEN <<rows[i].Subject[1]>> ELSE rows[i].Subject)}

\* the signature (subject, start, end) of the record in row i
SigOfRow(i) ==
    <<rows[i].Subject,
      <<IF rows[i].all_day THEN "D" ELSE "T", rows[i].sd>>,
      <<IF rows[i].all_day THEN "D" ELSE "T", rows[i].ed>>>>

DesiredSigs(course) == {SigOfRow(i) : i \in RecordsOf(course)}

\* no two records of the course have the same signature
DistinctRecords(course) ==
    \A i, j \in RecordsOf(course) : i # j => SigOfRow(i) # SigOfRow(j)

\* the signatures the store holds for a calendar id
StoredSigs(cal_id) ==
    {<<e.summary, e.start, e.end>> :
        e \in {x \in SeqToSet(dbEvents) : x.calendar_id = cal_id}}

\* the pass of `course` is under way or was the last one to end
PassOf(course) ==
    \/ pc \in {"refresh", "upload"} /\ loc.course = course
    \/ pc \in {"course", "idle"} /\ obs.last.kind # "none" /\ obs.last.course = course

\* the pass of obs.last.course has just ended with its state persisted
Settled == pc \in {"course", "idle"} /\ obs.last.kind = "ok"

StateRow(course) == CHOOSE c \in dbCalendars : c.summary = course

\* the category of row i: the part of its Subject before the separator
CategoryOfRow(i) ==
    IF \E k \in 1..Len(rows[i].Subject) : rows[i].Subject[k] = " -- "
    THEN <<rows[i].Subject[1]>> ELSE rows[i].Subject

\* the names of the desired set
CategoryNames == {CategoryOfRow(i) : i \in 1..Len(rows)}

\* the positions of the remote calendars whose name is exactly `name`
NamedExactly(name) == {i \in 1..Len(remoteCals) : remoteCals[i].summary = name}

\* the number of records of the course whose signature was missing at the diff
MissingAtDiff(course) ==
    Cardinality({i \in RecordsOf(course) : SigOfRow(i) \notin obs.existingAtDiff})

\* the per-category loop of a run with --delete-existing is about to begin
LoopBeginsAfterPrepass ==
    obs.delete_existing /\ pc = "course" /\ idx = 1 /\ obs.attempted = <<>>

-----------------------------------------------------------------------------
(* Claims *)

\* C1: when a second sync run follows the first over the same rows, with no
\* reset of the store and no deletion in between, then for every course stored
\* complete at the end of the first run the second run issues no create-event
\* call and the stored complete flag of the course stays true.
C1_SyncIdempotent ==
    (run = "second" /\ ~obs.dirty) =>
        \A c \in obs.firstComplete :
            /\ \E r \in dbCalendars : r.summary = c /\ r.complete
            /\ PassOf(c) => obs.passCreates = <<>>

C1_Witness ==
    /\ run = "second" /\ ~obs.dirty /\ pc = "idle"
    /\ obs.last.kind = "ok"
    /\ Cardinality(obs.firstComplete) = 2
    /\ Len(dbEvents) >= 2
    /\ obs.passCreates = <<>>

\* C2: the events table never holds two rows with the same (calendar_id,
\* summary, start, end), and a db_record_event call whose key is already in the
\* table returns False and adds no row.
C2_SignatureUnique ==
    /\ \A i, j \in 1..Len(dbEvents) :
          i # j =>
            <<dbEvents[i].calendar_id, dbEvents[i].summary,
              dbEvents[i].start, dbEvents[i].end>>
            # <<dbEvents[j].calendar_id, dbEvents[j].summary,
                dbEvents[j].start, dbEvents[j].end>>
    /\ \A c \in obs.dbCalls : c.dup => (c.ret = FALSE /\ ~c.grew)

C2_Witness ==
    /\ Len(dbEvents) >= 2
    /\ \E c \in obs.dbCalls : c.dup /\ c.ret = FALSE

\* C3: after max_tries consecutive quota-exceeded answers call_with_retry has
\* invoked the operation exactly max_tries times, can invoke it no more, and
\* ends with a RuntimeError that carries the label and is not the remote error.
C3_RetryExhaustion ==
    /\ (rt.status \in {"loop", "exhausted"} /\ rt.nquota = rt.max_tries) =>
          /\ rt.calls = rt.max_tries
          /\ ~ENABLED RetryAttempt
          /\ rt.status = "loop" => ENABLED RetryExhaust
    /\ rt.status = "exhausted" =>
          /\ rt.nquota = rt.max_tries
          /\ rt.calls = rt.max_tries
          /\ rt.error.type = "RuntimeError"
          /\ rt.error.label = rt.label
          /\ rt.error.tries = rt.max_tries
          /\ rt.max_tries > 0 => (rt.error.type # rt.last.kind
                                  /\ rt.error.msg # rt.last.msg)

C3_Witness ==
    /\ rt.status = "exhausted"
    /\ rt.max_tries = DefaultMaxTries
    /\ rt.calls = DefaultMaxTries
    /\ rt.nquota = DefaultMaxTries

\* C4: for every base delay, the delay slept before the k-th retry is
\* min(base * 2^(k-1), 300), for k up to the number N < max_tries of
\* consecutive quota-exceeded answers.
C4_BackoffFormula ==
    \A k \in 1..Len(rt.sleeps) :
        k < rt.max_tries =>
            rt.sleeps[k] = Min(rt.base_delay * Pow2(k - 1), DelayCeiling)

\* the error texts of Texts that contain 'quota' or 'limits exceeded' when
\* compared case-insensitively
QuotaTexts ==
    { <<"Quota", "Exceeded">>, <<"usage", "LIMITS", "Exceeded">>, <<"user", "QUOTA">> }

\* C5: a failure of the wrapped call is either retried after a sleep or
\* propagated, never both; it is retried only if its text contains 'quota' or
\* 'limits exceeded' (any case), an HttpError with such a text is retried, and a
\* failure without such a text is propagated as it is, on whichever attempt,
\* with no sleep and no further invocation.
C5_FailureClassification ==
    (rt.calls > 0 /\ rt.last.kind # "ok") =>
        LET retried == rt.status \in {"loop", "exhausted"}
                       /\ Len(rt.sleeps) = rt.calls
            propagated == rt.status = "raised"
                          /\ rt.error.type = rt.last.kind
                          /\ rt.error.msg = rt.last.msg
                          /\ Len(rt.sleeps) = rt.calls - 1
                          /\ ~ENABLED RetryAttempt
        IN  /\ retried # propagated
            /\ retried => rt.last.msg \in QuotaTexts
            /\ (rt.last.kind = "HttpError" /\ rt.last.msg \in QuotaTexts) => retried
            /\ rt.last.msg \notin QuotaTexts => propagated

C5_Witness ==
    /\ rt.status = "raised"
    /\ rt.calls = 3
    /\ rt.last = [kind |-> "HttpError", msg |-> <<"Rate", "Limit", "Exceeded">>]
    /\ Len(rt.sleeps) = 2

\* C6: in one pass create-event calls are issued only for signatures of the
\* desired set that are not among the existing signatures computed after the
\* refresh, at most one create succeeds per signature, and so a calendar the
\* engine fills never holds two events with the same (subject, start, end).
C6_NoRedundantCreate ==
    \A c \in desired(rows) :
        PassOf(c) =>
            /\ \A i \in 1..Len(obs.passCreates) :
                  obs.passCreates[i].sig \in DesiredSigs(c) \ obs.existingAtDiff
            /\ \A i, j \in 1..Len(obs.passCreates) :
                  (i # j /\ obs.passCreates[i].ok /\ obs.passCreates[j].ok)
                     => obs.passCreates[i].sig # obs.passCreates[j].sig

\* C7: a pass over a course with n distinct desired signatures, k of them
\* present in the remote calendar when the pass begins, issues create calls for
\* exactly n - k signatures and for none of the k present ones.
C7_ResumeCreatesOnlyMissing ==
    \A c \in desired(rows) :
        (Settled /\ obs.last.course = c /\ DistinctRecords(c)) =>
            /\ Len(obs.passCreates)
                  = Cardinality(DesiredSigs(c))
                    - Cardinality(DesiredSigs(c) \cap obs.presentAtStart)
            /\ \A i \in 1..Len(obs.passCreates) :
                  obs.passCreates[i].sig \notin obs.presentAtStart

\* C8: a pass without any failure over a course that has no remote calendar
\* and n records with distinct signatures creates the calendar, finds no
\* existing event, creates all n events and stores expected_count = n,
\* synced_count = n, complete = true.
C8_NewCategory ==
    \A c \in desired(rows) :
        (/\ Settled /\ obs.last.course = c
         /\ obs.resolve.name = c /\ obs.resolve.prior = {}
         /\ obs.passFaults = 0
         /\ DistinctRecords(c)) =>
            LET n == Cardinality(RecordsOf(c))
            IN  /\ obs.resolve.created
                /\ obs.resolve.id \in {remoteCals[i].id : i \in 1..Len(remoteCals)}
                /\ obs.presentAtStart = {}
                /\ obs.existingAtDiff = {}
                /\ Len(obs.passCreates) = n
                /\ \A i \in 1..n : obs.passCreates[i].ok
                /\ {obs.passCreates[i].sig : i \in 1..n} = DesiredSigs(c)
                /\ \E r \in dbCalendars :
                      /\ r.summary = c
                      /\ r.gcal_id = obs.resolve.id
                      /\ r.expected_count = n
                      /\ r.synced_count = n
                      /\ r.complete = TRUE

C8_Witness ==
    /\ Settled /\ obs.last.course = <<"A">>
    /\ obs.resolve.name = <<"A">> /\ obs.resolve.created
    /\ obs.passFaults = 0
    /\ DistinctRecords(<<"A">>)
    /\ Cardinality(RecordsOf(<<"A">>)) = 3
    /\ Len(obs.passCreates) = 3
    /\ StateRow(<<"A">>).synced_count = 3

\* C9: the calendars row a pass writes has expected_count = the number of
\* distinct desired signatures, synced_count = the number of signatures the
\* store then holds for that calendar id, and complete = true exactly when
\* every desired signature is among them; a pass whose missing set is empty
\* writes complete = true and issues no create call.
C9_SettledState ==
    \A c \in desired(rows) :
        (Settled /\ obs.last.course = c) =>
            /\ Cardinality({r \in dbCalendars : r.summary = c}) = 1
            /\ LET r == StateRow(c)
               IN  /\ r.gcal_id = obs.resolve.id
                   /\ r.expected_count = Cardinality(DesiredSigs(c))
                   /\ r.synced_count = Cardinality(StoredSigs(r.gcal_id))
                   /\ r.complete = (DesiredSigs(c) \subseteq StoredSigs(r.gcal_id))
                   /\ (DesiredSigs(c) \subseteq obs.existingAtDiff)
                         => (r.complete /\ obs.passCreates = <<>>)

C9_Witness ==
    /\ Settled
    /\ obs.passCreates # <<>>
    /\ ~StateRow(obs.last.course).complete
    /\ StateRow(obs.last.course).synced_count >= 1
    /\ StateRow(obs.last.course).expected_count >= 2

\* C10: once ensure_calendar_exists has created a calendar for a name, and that
\* calendar is still there, a later call for the name returns its id with
\* created = False and creates nothing, so no two calendars created by the
\* resolver carry the same name.
C10_ResolverRepeatable ==
    /\ \A i, j \in 1..Len(remoteCals) :
          (/\ i # j
           /\ remoteCals[i].id \in obs.madeCals
           /\ remoteCals[j].id \in obs.madeCals)
             => remoteCals[i].summary # remoteCals[j].summary
    /\ (obs.resolve.prior \cap obs.madeCals # {}) =>
          /\ ~obs.resolve.created
          /\ obs.resolve.prior \cap obs.madeCals = {obs.resolve.id}

C10_Witness ==
    /\ run = "second"
    /\ obs.resolve.prior \cap obs.madeCals # {}
    /\ ~obs.resolve.created
    /\ obs.resolve.id \in obs.madeCals

\* C11: after ensure_calendar_exists has listed the calendars, the id it
\* returns is that of the first calendar, in listing order over all pages,
\* whose name equals the category name exactly, and it has issued a
\* create-calendar call exactly when no listed calendar had that name (the
\* created calendar is then the only one of that name).
C11_ResolverLookup ==
    /\ pc = "refresh" =>
          /\ NamedExactly(loc.course) # {}
          /\ \E i \in NamedExactly(loc.course) :
                /\ \A j \in NamedExactly(loc.course) : i <= j
                /\ loc.cal_id = remoteCals[i].id
          /\ loc.created = obs.createCall
          /\ obs.createCall = (obs.resolve.prior = {})
          /\ obs.createCall => NamedExactly(loc.course) = {Len(remoteCals)}
    /\ obs.createCall => obs.resolve.prior = {}
    /\ (obs.resolve.name # <<>> /\ obs.resolve.prior = {}) => obs.createCall

C11_Witness ==
    /\ pc = "refresh"
    /\ loc.course = <<"A">>
    /\ ~obs.createCall
    /\ Cardinality(NamedExactly(<<"A">>)) = 2
    /\ \E i \in 1..Len(remoteCals) :
          /\ remoteCals[i].summary = <<"A", " ">>
          /\ \A j \in NamedExactly(<<"A">>) : i < j
    /\ loc.cal_id = 3

\* C12: an exception that ends a category's pass and reaches the category loop
\* of cmd_sync is never a quota-exceeded error of the remote service; a quota
\* error reaches the loop only as the RuntimeError of exhausted retries.
C12_QuotaNeverSurfaced ==
    obs.raised.type # "none" =>
        /\ ~(obs.raised.type = "HttpError" /\ obs.raised.msg \in QuotaTexts)
        /\ obs.raised.type = "RuntimeError" => obs.raised.calls = DefaultMaxTries

\* C13: once a create-event call has exhausted its retries, it is the last
\* create-event call of the pass, the pass has ended with the RuntimeError
\* surfaced to cmd_sync, and cmd_sync has paused if a category follows.
C13_ExhaustionAbortsCategory ==
    \A i \in 1..Len(obs.passCreates) :
        obs.passCreates[i].status = "exhausted" =>
            /\ i = Len(obs.passCreates)
            /\ pc # "upload"
            /\ obs.last.kind # "none" => obs.last.kind = "runtime"

\* C14: when a create-event call of the upload loop fails with a permanent
\* error, that call records nothing in the store, the signature is not in the
\* store unless another create of it succeeded, every record missing at the
\* diff is still attempted, and the pass ends by persisting the state row, with
\* complete = false when the failed signature is still not in the store.
C14_EventFailureSkipped ==
    \A c \in CategoryNames :
      \A i \in 1..Len(obs.passCreates) :
        (PassOf(c) /\ obs.passCreates[i].status = "raised") =>
            LET sig == obs.passCreates[i].sig
                retried == \E j \in 1..Len(obs.passCreates) :
                              obs.passCreates[j].sig = sig /\ obs.passCreates[j].ok
            IN  /\ i = Len(obs.passCreates) => obs.dbCalls = {}
                /\ (sig \notin obs.existingAtDiff /\ ~retried)
                      => sig \notin StoredSigs(obs.resolve.id)
                /\ pc = "upload" =>
                      Len(obs.passCreates) + Len(loc.missing) = MissingAtDiff(c)
                /\ pc # "upload" =>
                      /\ obs.last.kind = "ok"
                      /\ Len(obs.passCreates) = MissingAtDiff(c)
                      /\ \E r \in dbCalendars :
                            /\ r.summary = c
                            /\ r.gcal_id = obs.resolve.id
                            /\ sig \notin StoredSigs(obs.resolve.id) => ~r.complete

C14_Witness ==
    /\ Settled
    /\ Len(obs.passCreates) = 3
    /\ obs.passCreates[1].status = "raised"
    /\ obs.passCreates[2].ok /\ obs.passCreates[3].ok
    /\ ~StateRow(obs.last.course).complete
    /\ StateRow(obs.last.course).synced_count = 2

\* the categories whose pass has ended in the current run, in that order
AttemptedNames == [i \in 1..Len(obs.attempted) |-> obs.attempted[i].course]

\* C15: however the passes of a run end (normally, with the RuntimeError of
\* exhausted retries, or with any other exception), the loop goes on: while it
\* runs the passes ended are those of the categories before the current one,
\* no category is attempted twice, and when the run has ended after entering
\* the loop every category of the desired set has been attempted exactly once.
C15_RunNotAborted ==
    /\ \A i, j \in 1..Len(obs.attempted) :
          i # j => obs.attempted[i].course # obs.attempted[j].course
    /\ SeqToSet(AttemptedNames) \subseteq CategoryNames
    /\ pc \in {"course", "refresh", "upload"} =>
          /\ Len(obs.attempted) = idx - 1
          /\ idx <= Cardinality(CategoryNames)
          /\ pc # "course" => loc.course \notin SeqToSet(AttemptedNames)
    /\ (pc = "idle" /\ obs.attempted # <<>>) =>
          /\ SeqToSet(AttemptedNames) = CategoryNames
          /\ Len(obs.attempted) = Cardinality(CategoryNames)

C15_Witness ==
    /\ pc = "idle"
    /\ Len(obs.attempted) = 2
    /\ obs.attempted[1].kind \in {"runtime", "error"}
    /\ obs.attempted[2].kind = "ok"

\* C16: the passes of a run come in lexical order of the category names (here
\* <<"A">> before <<"B">>), one at a time, each pass that is not the last is
\* followed by at least one sleep, every sleep being of the configured pause,
\* whether the pass succeeded or failed, and the last pass by none.
C16_OrderAndPauses ==
    /\ \A i, j \in 1..Len(obs.attempted) :
          i < j => (obs.attempted[i].course = <<"A">>
                    /\ obs.attempted[j].course = <<"B">>)
    /\ pc \in {"refresh", "upload"} =>
          /\ \A i \in 1..Len(obs.attempted) :
                obs.attempted[i].course = <<"A">> /\ loc.course = <<"B">>
          /\ (<<"A">> \in CategoryNames /\ loc.course = <<"B">>)
                => obs.attempted # <<>>
    /\ \A i \in 1..Len(obs.attempted) :
          /\ \A k \in 1..Len(obs.attempted[i].pauses) :
                obs.attempted[i].pauses[k] = DefaultPause
          /\ i < Cardinality(CategoryNames) => obs.attempted[i].pauses # <<>>
          /\ i = Cardinality(CategoryNames) => obs.attempted[i].pauses = <<>>

C16_Witness ==
    /\ pc = "idle"
    /\ rows[1].Subject = SubjB
    /\ Len(obs.attempted) = 2
    /\ obs.attempted[1].course = <<"A">>
    /\ obs.attempted[1].kind = "error"
    /\ obs.attempted[1].pauses = <<DefaultPause>>
    /\ obs.attempted[2].pauses = <<>>

\* C17: when the per-category loop of a run with --delete-existing begins, no
\* remote calendar bears the name of a category of the desired set.
C17_PrepassDeletesRemote ==
    LoopBeginsAfterPrepass =>
        \A i \in 1..Len(remoteCals) : remoteCals[i].summary \notin CategoryNames

\* C18: when the per-category loop of a run with --delete-existing begins, the
\* store holds no calendars row and no events row of a category of the desired
\* set, whether or not the pre-pass found a remote calendar of a desired name.
C18_PrepassClearsStore ==
    LoopBeginsAfterPrepass =>
        /\ \A r \in dbCalendars : r.summary \notin CategoryNames
        /\ \A i \in 1..Len(dbEvents) :
              dbEvents[i].calendar_summary \notin CategoryNames

\* a subject that contains a protected keyword in some case
ProtectedSubject(summary) ==
    \E i \in 1..Len(summary) :
        summary[i] \in {"holiday", "Holiday", "HOLIDAY", "birth", "Birth",
                        "task", "Task", "morocco", "semaine", "@", "primary"}

\* the ids cmd_dedupe has counted as duplicates so far
DetectedIds == UNION {SeqToSet(dd.scans[k].dupes) : k \in 1..Len(dd.scans)}

RECURSIVE SumOfDupes(_)
SumOfDupes(scans) ==
    IF scans = <<>> THEN 0 ELSE Len(Head(scans).dupes) + SumOfDupes(Tail(scans))

\* C19: an event whose subject contains a protected keyword in any case is
\* never counted as a duplicate by cmd_dedupe, never passed to a delete call,
\* and so is still in its calendar, however many identical copies it has.
C19_ProtectedExempt ==
    dd.status # "idle" =>
        \A e \in dd.before :
            ProtectedSubject(e.summary) =>
                /\ e.id \notin DetectedIds
                /\ e.id \notin dd.deleteCalls
                /\ e \in remoteEvents

C19_Witness ==
    /\ dd.status = "done" /\ ~dd.dry_run
    /\ dd.total_deleted >= 1
    /\ \E k \in 1..Len(dd.scans) :
          \E i, j \in 1..Len(dd.scans[k].listed) :
              /\ i # j
              /\ dd.scans[k].listed[i].summary = <<"Task", "X">>
              /\ dd.scans[k].listed[j].summary = <<"Task", "X">>
              /\ dd.scans[k].listed[i].start = dd.scans[k].listed[j].start
              /\ dd.scans[k].listed[i] \in remoteEvents
              /\ dd.scans[k].listed[j] \in remoteEvents

\* C20: in each scanned calendar the duplicates are the non-protected listed
\* events that follow, in the listing, another non-protected event with the
\* same (trimmed subject, start, end); their number is the number of such
\* events minus the number of groups; the reported count is the sum over the
\* calendars; and a non-dry run without a delete failure has deleted exactly
\* these events and no other.
C20_DuplicateDetection ==
    /\ \A k \in 1..Len(dd.scans) :
          LET s == dd.scans[k]
              np == {i \in 1..Len(s.listed) : ~ProtectedSubject(s.listed[i].summary)}
              key(i) == <<Strip(s.listed[i].summary), s.listed[i].start,
                          s.listed[i].end>>
              later == {i \in np : \E j \in np : j < i /\ key(j) = key(i)}
          IN  /\ \A i \in 1..Len(s.listed) : s.listed[i].cal = s.cal
              /\ SeqToSet(s.dupes) = {s.listed[i].id : i \in later}
              /\ Len(s.dupes) = Cardinality(later)
              /\ Len(s.dupes) = Cardinality(np) - Cardinality({key(i) : i \in np})
    /\ dd.total_dupes = SumOfDupes(dd.scans)
    /\ (dd.status = "done" /\ ~dd.dry_run /\ dd.failed = 0) =>
          /\ dd.total_deleted = dd.total_dupes
          /\ dd.deleteCalls = DetectedIds
          /\ remoteEvents = {e \in dd.before : e.id \notin DetectedIds}

C20_Witness ==
    /\ dd.status = "done" /\ ~dd.dry_run /\ dd.failed = 0
    /\ {e.id : e \in dd.before} = {11, 12, 14, 15}
    /\ dd.total_dupes = 1
    /\ dd.total_deleted = 1
    /\ Cardinality(remoteEvents) = 3
    /\ {e \in remoteEvents : e.summary = <<"Task", "X">>}
          = {e \in dd.before : e.summary = <<"Task", "X">>}

\* the duplicates of calendar cal_id among a set of events, within a window:
\* the non-protected events less one per (trimmed subject, start, end) group
DuplicatesIn(evs, cal_id, w) ==
    LET np == {e \in evs : /\ e.cal = cal_id
                           /\ TimeOf(e.end) > w.lo /\ TimeOf(e.start) < w.hi
                           /\ ~ProtectedSubject(e.summary)}
    IN  Cardinality(np)
        - Cardinality({<<Strip(e.summary), e.start, e.end>> : e \in np})

RECURSIVE DuplicatesOfScans(_, _, _)
DuplicatesOfScans(scans, evs, w) ==
    IF scans = <<>> THEN 0
    ELSE DuplicatesIn(evs, Head(scans).cal, w)
         + DuplicatesOfScans(Tail(scans), evs, w)

\* C21: a cmd_dedupe run with --dry-run issues no delete call and leaves the
\* remote events as they were when it started; and the count of duplicates it
\* reports for the calendars scanned is, dry or not, the count of duplicates
\* among the events present when the command started.
C21_DryRunMutatesNothing ==
    /\ (dd.status # "idle" /\ dd.dry_run) =>
          /\ dd.deleteCalls = {}
          /\ dd.total_deleted = 0
          /\ remoteEvents = dd.before
    /\ dd.status # "idle" =>
          dd.total_dupes = DuplicatesOfScans(dd.scans, dd.before, dd.window)

C21_Witness ==
    /\ dd.status = "done" /\ dd.dry_run
    /\ Len(dd.scans) = 3
    /\ dd.total_dupes = 2
    /\ remoteEvents = dd.before
    /\ dd.deleteCalls = {}

\* the rows of a category, and the signatures of its parseable rows, as the
\* engine groups them
RowsOfCategory(c) == by_course(rows, c)
SigsOfCategory(c) == expected_sigs_of(expected_of(by_course(rows, c)))

\* how often row r occurs in a sequence of rows
Occurrences(rs, r) == Cardinality({i \in 1..Len(rs) : rs[i] = r})

\* C22: when cmd_sync has grouped the rows by course_from_subject (the loop
\* over the courses is about to begin) every row is in exactly one category
\* (as often as the file holds it), and every signature of the parsed rows is
\* in the signature set of exactly one category.
C22_Partition ==
    (pc = "course" /\ idx = 1) =>
       /\ \A i \in 1..Len(rows) :
             /\ Cardinality({c \in desired(rows) :
                                Occurrences(RowsOfCategory(c), rows[i]) > 0}) = 1
             /\ \A c \in desired(rows) :
                   Occurrences(RowsOfCategory(c), rows[i]) \in
                      {0, Occurrences(rows, rows[i])}
       /\ UNION {SigsOfCategory(c) : c \in desired(rows)}
             = {SigOfRow(i) : i \in {j \in 1..Len(rows) : rows[j].good}}
       /\ \A c1, c2 \in desired(rows) :
             c1 # c2 => SigsOfCategory(c1) \cap SigsOfCategory(c2) = {}

\* the rows of a file of three rows, of two categories with records, grouped
C22_Witness ==
    /\ pc = "course" /\ idx = 1
    /\ Len(rows) = 3
    /\ SigsOfCategory(<<"A">>) # {} /\ SigsOfCategory(<<"B">>) # {}
    /\ Len(RowsOfCategory(<<"A">>)) + Len(RowsOfCategory(<<"B">>)) = 3
    /\ rows[1].Subject # rows[2].Subject

\* C23: as long as the tracker of a run lives (until cmd_sync returns) no step
\* lowers its used counter; and in every state remaining is None for the
\* tracker without a budget and, with a budget, the larger of total - used and
\* 0, so never negative.
C23_QuotaArithmetic ==
    /\ [](\A t \in DOMAIN quota :
            /\ quota[t].quota_total = t
            /\ quota[t].used >= 0
            /\ t = None => remaining(quota[t]) = None
            /\ t # None =>
                  /\ remaining(quota[t]).k = "int"
                  /\ remaining(quota[t]).t >= 0
                  /\ remaining(quota[t]).t >= t.t - quota[t].used
                  /\ remaining(quota[t]).t \in {0, t.t - quota[t].used})
    /\ [][pc' # "idle" =>
            \A t \in DOMAIN quota : quota'[t].used >= quota[t].used]_vars

\* the run with budget 2 has used more than its budget: remaining is clamped
C23_Witness ==
    /\ pc = "upload"
    /\ DOMAIN quota = QuotaTotals
    /\ quota[[k |-> "int", t |-> 2]].used = 4
    /\ remaining(quota[[k |-> "int", t |-> 2]]).t = 0
    /\ remaining(quota[[k |-> "int", t |-> 1000]]).t = 996
    /\ remaining(quota[None]) = None

\* C24: the runs that differ only in the budget (absent, 0, 2, 1000) go through
\* the same steps: at every moment their trackers have counted the same calls,
\* whatever the remaining value of each; and a step of a run in which some
\* tracker has nothing remaining still sends its requests to the service.
C24_TrackerAdvisory ==
    /\ [](\A t1, t2 \in DOMAIN quota : quota[t1].used = quota[t2].used)
    /\ [][(/\ pc # "idle" /\ pc' # "idle"
           /\ \E t \in DOMAIN quota :
                 remaining(quota[t]) # None /\ remaining(quota[t]).t = 0)
          => /\ requests' > requests
             /\ \A t \in DOMAIN quota : quota'[t].used <= quota[t].used + (requests' - requests)]_vars

\* an event was created although the budgets 0 and 2 had nothing remaining,
\* and the trackers without and with a large budget counted it all the same
C24_Witness ==
    /\ pc = "upload"
    /\ DOMAIN quota = QuotaTotals
    /\ Len(obs.passCreates) = 1 /\ obs.passCreates[1].ok
    /\ remaining(quota[[k |-> "int", t |-> 0]]).t = 0
    /\ remaining(quota[[k |-> "int", t |-> 2]]).t = 0
    /\ quota[None].used = 3
    /\ quota[[k |-> "int", t |-> 0]].used = 3
    /\ quota[[k |-> "int", t |-> 1000]].used = 3

\* C25: every attempt of a call made through call_with_retry is counted once
\* by the tracker.  In the first pass of a run without pre-pass, once the
\* calendar is resolved, every request made outside call_with_retry has
\* returned and was counted, so the statement is that used equals the number
\* of requests the service received.
C25_EveryAttemptCounted ==
    (/\ DOMAIN quota # {}
     /\ pc \in {"refresh", "upload"}
     /\ idx = 1
     /\ ~obs.delete_existing)
    => \A t \in DOMAIN quota : quota[t].used = requests

\* the span from the earliest start to the latest end over all the records
\* of a pass, all-day and timed alike
SpanOfRecords(expected) ==
    [lo |-> CHOOSE t \in {expected[i].s.t : i \in 1..Len(expected)} :
               \A j \in 1..Len(expected) : t <= expected[j].s.t,
     hi |-> CHOOSE t \in {expected[i].e.t : i \in 1..Len(expected)} :
               \A j \in 1..Len(expected) : t >= expected[j].e.t]

\* C26: when the refresh of a pass is done (the upload loop is about to begin)
\* every remote event of the calendar that lies within the span of the
\* records of the category has been listed and merged into the store, so its
\* signature is among the existing signatures.
C26_RefreshCoversAllRecords ==
    (pc = "upload" /\ obs.passCreates = <<>>) =>
       \A e \in ListedEvents(remoteEvents, loc.cal_id, SpanOfRecords(loc.expected)) :
          <<e.summary, e.start, e.end>> \in obs.existingAtDiff

\* the rows of a category whose date fields parse, in file order
GoodRowsOf(course) == SelectSeq(by_course(rows, course), LAMBDA r : r.good)

\* C27: a row whose date fields do not parse takes no part in anything that
\* is computed after it was read: the expected records are exactly the
\* parseable rows of the category, the signature set and the refresh window
\* are those of the parseable rows alone, every create-event call is for the
\* signature of a parseable row, the persisted expected_count counts the
\* signatures of parseable rows only, a pass ends with an exception only after
\* a failing answer of the service, and no pass is run (no calendar resolved
\* or created) for a category that only unparseable rows name.
C27_UnparseableRowExcluded ==
    /\ pc \in {"refresh", "upload"} =>
          /\ \A i \in 1..Len(loc.expected) : loc.expected[i].row.good
          /\ Len(loc.expected) = Cardinality(RecordsOf(loc.course))
          /\ expected_sigs_of(loc.expected) = DesiredSigs(loc.course)
          /\ \A now \in NowChoices :
                Window(loc.expected, now)
                   = Window(expected_of(GoodRowsOf(loc.course)), now)
          /\ \A k \in 1..Len(obs.passCreates) :
                obs.passCreates[k].sig \in DesiredSigs(loc.course)
    /\ Settled =>
          StateRow(obs.last.course).expected_count
             = Cardinality(DesiredSigs(obs.last.course))
    /\ (pc \in {"course", "idle"} /\ obs.last.kind \in {"runtime", "error"})
          => obs.passFaults > 0
    /\ pc \in {"refresh", "upload"} => RecordsOf(loc.course) # {}

\* the create-event calls of the current pass that returned and whose event
\* is recorded in the store
RecordedCreates ==
    {k \in 1..Len(obs.passCreates) :
        /\ obs.passCreates[k].ok
        /\ obs.passCreates[k].sig \in StoredSigs(loc.cal_id)}

\* C28: an event whose store record failed after its remote create returned
\* counts as not yet synced: during the upload loop the number of inserted
\* events is the number of created events that are recorded in the store, and
\* a category is persisted as complete only when the signature of every
\* record of it is in the store.
C28_StoreFailureNotAssumed ==
    /\ pc = "upload" => loc.inserted = Cardinality(RecordedCreates)
    /\ Settled =>
          (StateRow(obs.last.course).complete =>
              DesiredSigs(obs.last.course)
                 \subseteq StoredSigs(StateRow(obs.last.course).gcal_id))

\* the calendar of the current pass, or of the pass that has just ended, was
\* resolved successfully
ResolvedInPass ==
    /\ obs.resolve.id # 0
    /\ \/ pc \in {"refresh", "upload"}
       \/ /\ pc \in {"course", "idle"}
          /\ obs.last.kind # "none"
          /\ obs.last.course = obs.resolve.name

\* C29: from the successful resolution of a category's calendar onward, also
\* when the pass ends with an exception afterwards, the store holds the
\* calendars row of the category with the resolved id; and when a pass has
\* ended normally the row carries the counts of that pass.
C29_StateRowLifecycle ==
    /\ ResolvedInPass =>
          \E c \in dbCalendars :
             c.summary = obs.resolve.name /\ c.gcal_id = obs.resolve.id
    /\ Settled =>
          /\ StateRow(obs.last.course).expected_count
                = Cardinality(DesiredSigs(obs.last.course))
          /\ StateRow(obs.last.course).synced_count
                = Cardinality(StoredSigs(StateRow(obs.last.course).gcal_id))

\* the rows of the events table after a step are those before it, unchanged
\* and in place, followed by the rows the step inserted
RecordsKept ==
    /\ Len(dbEvents') >= Len(dbEvents)
    /\ \A i \in 1..Len(dbEvents) : dbEvents'[i] = dbEvents[i]

\* C30: no step changes a field of a row of the events table, and a row leaves
\* the table only in a step of cmd_reset_db (which empties it) or of the
\* --delete-existing pre-pass (which removes the rows of the desired
\* categories and no others); every other step, the passes of a sync run
\* among them, keeps every row as it is.
C30_RecordLifecycle ==
    [][\/ RecordsKept
       \/ /\ pc = "idle" /\ pc' = "idle"
          /\ dbEvents' = <<>>
       \/ /\ pc = "prepass" /\ obs.delete_existing
          /\ dbEvents' = SelectSeq(dbEvents,
                            LAMBDA e : e.calendar_summary \notin desired(rows))]_vars

\* a second run without pre-pass has gone over a store that held the rows of
\* a complete category, and added a row of another pass to it
C30_Witness ==
    /\ run = "second" /\ pc = "idle"
    /\ ~obs.delete_existing /\ ~obs.dirty
    /\ obs.firstComplete # {}
    /\ obs.last.kind = "ok"
    /\ Len(dbEvents) = 3

\* C31: when two passes interleave on one category and one store, the events
\* table never holds two rows with the same (calendar id, subject, start,
\* end), and every db_record_event call that found a row with its key in the
\* table returned False (it never raises: the call always hands back a value
\* and the pass goes on).
C31_UniquenessBackstop ==
    /\ \A i, j \in 1..Len(dbEvents) :
          (i # j) =>
             <<dbEvents[i].calendar_id, dbEvents[i].summary,
               dbEvents[i].start, dbEvents[i].end>>
             # <<dbEvents[j].calendar_id, dbEvents[j].summary,
                 dbEvents[j].start, dbEvents[j].end>>
    /\ \A p \in DOMAIN writers : \A k \in 1..Len(writers[p].rets) :
          /\ writers[p].rets[k].ret \in BOOLEAN
          /\ writers[p].rets[k].dup => ~writers[p].rets[k].ret

\* both passes found the same record missing and both created it remotely;
\* the first insert was stored, the second lost and returned False, and both
\* passes ran to their end
C31_Witness ==
    /\ DOMAIN writers = Writers
    /\ writers[1].pc = "done" /\ writers[2].pc = "done"
    /\ writers[1].cal_id = writers[2].cal_id
    /\ Len(rows) = 1
    /\ Len(dbEvents) = 1
    /\ Cardinality({e \in remoteEvents : e.cal = writers[1].cal_id}) = 2
    /\ \E p, q \in Writers :
          /\ p # q
          /\ writers[p].rets = <<[key |-> writers[q].rets[1].key,
                                  dup |-> FALSE, ret |-> TRUE]>>
          /\ Len(writers[q].rets) = 1
          /\ writers[q].rets[1].dup /\ ~writers[q].rets[1].ret

\* the rows of a course that parse, in file order, and the (Subject, start)
\* pair of a row as upload_single_course compares it
UploadKey(r) == <<r.Subject, <<IF r.all_day THEN "D" ELSE "T", r.sd>>>>

\* C32: after upload_single_course has gone through its insert loop: when
\* the listing of the existing events failed, nothing was fetched and an
\* insert call was issued for every parseable row of the course, in file
\* order; when the listing succeeded, an insert call was issued for exactly
\* the parseable rows whose (Subject, start) is not in the fetched set.
C32_FailedListingAsEmpty ==
    (tool.cmd = "upload" /\ tool.listing # "none") =>
       /\ tool.listing = "failed" =>
             /\ tool.fetched = {}
             /\ [k \in 1..Len(tool.inserts) |-> tool.inserts[k].row]
                   = GoodRowsOf(tool.course)
       /\ tool.listing = "ok" =>
             /\ \A k \in 1..Len(tool.inserts) :
                   UploadKey(tool.inserts[k].row) \notin tool.fetched
             /\ [k \in 1..Len(tool.inserts) |-> tool.inserts[k].row]
                   = SelectSeq(GoodRowsOf(tool.course),
                               LAMBDA r : UploadKey(r) \notin tool.fetched)

\* the listing failed after a sync run had created both events of the course:
\* both rows were inserted again, and the calendar now holds each event twice
C32_Witness ==
    /\ tool.cmd = "upload" /\ tool.listing = "failed"
    /\ Len(tool.inserts) = 2
    /\ tool.inserts[1].ok /\ tool.inserts[2].ok
    /\ tool.inserts[1].row # tool.inserts[2].row
    /\ \A k \in 1..2 :
          Cardinality({e \in remoteEvents :
                          <<e.summary, e.start>> = UploadKey(tool.inserts[k].row)}) >= 2

\* the protected keywords of a command, as a set (scripts/aggressive_prune.py
\* has its own list), and whether a name holds one of them whatever its case
KeywordsOf(cmd) ==
    IF cmd = "aggressive"
    THEN {"tasks", "task", "birthday", "birthdays", "birth", "none", "primary",
          "@", "holiday"}
    ELSE {"holiday", "birth", "task", "morocco", "semaine", "@", "primary"}

HoldsKeyword(cmd, name) == \E i \in 1..Len(name) : Lower(name[i]) \in KeywordsOf(cmd)

\* C33: cmd_prune and scripts/aggressive_prune.py issue no delete call for a
\* listed calendar whose name holds one of their protected keywords in any
\* case, and (cmd_prune once confirmed with --yes) issue one delete call for
\* every other calendar of the pages they listed, in listing order.
C33_ProtectedNeverDeleted ==
    tool.cmd \in {"prune", "aggressive"} =>
       /\ \A k \in 1..Len(tool.deleteCalls), i \in 1..Len(tool.listed) :
             tool.listed[i].id = tool.deleteCalls[k]
                => ~HoldsKeyword(tool.cmd, tool.listed[i].summary)
       /\ (tool.cmd = "aggressive" \/ tool.yes) =>
             tool.deleteCalls =
                IdsOf(SelectSeq(tool.listed,
                         LAMBDA c : ~HoldsKeyword(tool.cmd, c.summary)))

\* cmd_prune --yes listed "Holiday s" and three other calendars over two pages:
\* the three were deleted, the holiday calendar is still there
C33_Witness ==
    /\ tool.cmd = "prune" /\ tool.yes
    /\ Len(tool.listed) > PageSize
    /\ Len(tool.deleteCalls) = 3
    /\ \E i \in 1..Len(tool.listed) :
          /\ tool.listed[i].summary = <<"Holiday", "s">>
          /\ \E j \in 1..Len(remoteCals) : remoteCals[j].id = tool.listed[i].id
    /\ \A k \in 1..3, j \in 1..Len(remoteCals) : remoteCals[j].id # tool.deleteCalls[k]

\* C34: without --yes cmd_delete and cmd_prune issue no delete call and leave
\* the remote calendars and events as they were; with --yes they issue one
\* delete call per match, whether or not an earlier call failed, and every
\* calendar whose call did not fail is gone.
C34_ConfirmationGate ==
    /\ [](tool.cmd \in {"delete", "prune"} =>
            /\ ~tool.yes => tool.deleteCalls = <<>>
            /\ tool.yes =>
                  /\ tool.deleteCalls = IdsOf(tool.matches)
                  /\ \A k \in 1..Len(tool.deleteCalls) :
                        tool.deleteCalls[k] \notin tool.failed
                           => \A j \in 1..Len(remoteCals) :
                                 remoteCals[j].id # tool.deleteCalls[k])
    /\ [][(pc = "idle" /\ pc' = "idle" /\ tool'.cmd \in {"delete", "prune"}
             /\ ~tool'.yes)
            => (remoteCals' = remoteCals /\ remoteEvents' = remoteEvents)]_vars

\* cmd_delete --yes matched three calendars; the delete of the first failed,
\* the other two were deleted all the same
C34_Witness ==
    /\ tool.cmd = "delete" /\ tool.yes
    /\ Len(tool.deleteCalls) = 3
    /\ tool.failed = {tool.deleteCalls[1]}
    /\ \E j \in 1..Len(remoteCals) : remoteCals[j].id = tool.deleteCalls[1]
    /\ \A k \in 2..3, j \in 1..Len(remoteCals) : remoteCals[j].id # tool.deleteCalls[k]

\* C35: call_with_retry has slept once for every quota-exceeded response it
\* got, the response to the last attempt included: when it raises the
\* exhaustion error it has called the operation max_tries times and slept
\* max_tries times, and with max_tries = 0 it has neither called nor slept.
C35_SleepAfterEveryQuotaResponse ==
    /\ Len(rt.sleeps) = rt.nquota
    /\ rt.status \in {"loop", "exhausted"} => Len(rt.sleeps) = rt.calls
    /\ rt.status = "exhausted" =>
          /\ rt.calls = rt.max_tries
          /\ Len(rt.sleeps) = rt.max_tries
          /\ rt.error.type = "RuntimeError"
    /\ rt.max_tries = 0 => (rt.calls = 0 /\ rt.status \in {"idle", "loop", "exhausted"})

\* three quota-exceeded responses out of three attempts: the third sleep was
\* taken although no attempt follows it
C35_Witness ==
    /\ rt.status = "exhausted"
    /\ rt.max_tries = 3
    /\ rt.calls = 3
    /\ rt.base_delay = 10
    /\ rt.sleeps = <<10, 20, 40>>

\* C36: in a sync run, a pass that is not the last and ended with the
\* RuntimeError of exhausted retries is followed by two sleeps of the pause,
\* and a pass that is not the last and ended well or with any other exception
\* by exactly one.
C36_DoublePauseAfterExhaustion ==
    /\ \A i \in 1..Len(obs.attempted) :
          i < Cardinality(CategoryNames) =>
             /\ obs.attempted[i].kind = "runtime"
                   => obs.attempted[i].pauses = <<DefaultPause, DefaultPause>>
             /\ obs.attempted[i].kind \in {"ok", "error"}
                   => obs.attempted[i].pauses = <<DefaultPause>>
             /\ obs.attempted[i].kind \in {"ok", "error", "runtime"}
    /\ (pc = "course" /\ obs.attempted # <<>>) =>
          (obs.attempted[Len(obs.attempted)].kind = "runtime"
              <=> obs.raised.type = "RuntimeError")

\* the pass of <<"A">> ended with the exhaustion error and two pauses, and
\* the pass of <<"B">> came after it
C36_Witness ==
    /\ pc = "idle"
    /\ Len(obs.attempted) = 2
    /\ obs.attempted[1].course = <<"A">>
    /\ obs.attempted[1].kind = "runtime"
    /\ obs.attempted[1].pauses = <<DefaultPause, DefaultPause>>
    /\ obs.attempted[2].course = <<"B">>
    /\ obs.attempted[2].kind = "ok"

\* C37: every row of the calendars table that is marked complete has
\* synced_count >= expected_count; and the row a pass has just written
\* carries, as synced_count, the number of all signatures stored under its
\* calendar id, those of remote events outside the desired set included.
C37_CompleteImpliesCounts ==
    /\ \A c \in dbCalendars : c.complete => c.synced_count >= c.expected_count
    /\ (pc \in {"course", "idle"} /\ obs.last.kind = "ok") =>
          \A c \in dbCalendars :
             c.summary = obs.last.course
                => c.synced_count = Cardinality(StoredSigs(c.gcal_id))

\* the row of <<"A">> is complete with one expected event and two counted:
\* the second is the remote event <<"X">> that no row of the file asks for
C37_Witness ==
    /\ pc = "idle"
    /\ obs.last.kind = "ok"
    /\ \E c \in dbCalendars :
          /\ c.summary = <<"A">>
          /\ c.complete
          /\ c.expected_count = 1
          /\ c.synced_count = 2
          /\ \E i \in 1..Len(dbEvents) :
                /\ dbEvents[i].calendar_id = c.gcal_id
                /\ dbEvents[i].summary = <<"X">>

\* the events of a listing that are the first of their (trimmed subject,
\* start, end) group, the events of protected subject left aside
FirstOfGroup(listed) ==
    {listed[i] : i \in {k \in 1..Len(listed) :
        /\ ~HoldsKeyword("dedupe", listed[k].summary)
        /\ \A j \in 1..(k - 1) :
              HoldsKeyword("dedupe", listed[j].summary)
              \/ <<Strip(listed[j].summary), listed[j].start, listed[j].end>>
                    # <<Strip(listed[k].summary), listed[k].start, listed[k].end>>}}

\* C38: in a cmd_dedupe without --dry-run in which no delete failed, of the
\* events of unprotected subject that the scan of a calendar listed, exactly
\* the first of each (trimmed subject, start, end) group is still in the
\* calendar once the calendar is scanned; and the same command run again at
\* once detects no duplicate, calls no delete and leaves every event in place.
C38_DedupeFixedPoint ==
    /\ (dd.status \in {"scan", "done"} /\ ~dd.dry_run /\ dd.failed = 0) =>
          \A s \in 1..Len(dd.scans) :
             \A i \in 1..Len(dd.scans[s].listed) :
                ~HoldsKeyword("dedupe", dd.scans[s].listed[i].summary) =>
                   (dd.scans[s].listed[i] \in remoteEvents
                       <=> dd.scans[s].listed[i] \in FirstOfGroup(dd.scans[s].listed))
    /\ (dd.again /\ dd.status \in {"scan", "done"}) =>
          /\ dd.total_dupes = 0
          /\ dd.total_deleted = 0
          /\ dd.deleteCalls = {}
          /\ \A s \in 1..Len(dd.scans) : dd.scans[s].dupes = <<>>
          /\ remoteEvents = dd.before

\* the second of two runs has scanned calendar 1, where the first run had
\* deleted two of the three events <<"X">> of T1..T2: it finds the one that
\* was listed first and no duplicate
C38_Witness ==
    /\ dd.again
    /\ dd.status = "done"
    /\ Len(dd.scans) = 3
    /\ dd.scans[1].cal = 1
    /\ Cardinality({e \in DedupePool \ remoteEvents :
                       e.cal = 1 /\ e.id \in {11, 12, 13}}) = 2
    /\ Cardinality({e \in remoteEvents : e.cal = 1 /\ e.id \in {11, 12, 13}}) = 1
    /\ dd.total_dupes = 0

\* the step in which the resolution of the calendar of a category fails:
\* the pass ends where it began, with an exception
ResolutionFails ==
    /\ pc = "course"
    /\ Len(obs'.attempted) = Len(obs.attempted) + 1
    /\ obs'.last.kind \in {"runtime", "error"}

\* C39: a pass whose calendar resolution fails (the listing raises, or the
\* create-calendar call exhausts its retries or fails for good) changes
\* neither table of the store, calls db_record_event not once, and makes no
\* event call for that category: no event is created and the remote events
\* are as they were.
C39_FailedResolutionLeavesStore ==
    [][ResolutionFails =>
          /\ dbCalendars' = dbCalendars
          /\ dbEvents' = dbEvents
          /\ remoteEvents' = remoteEvents
          /\ obs'.passCreates = <<>>
          /\ obs'.dbCalls = {}
          /\ obs'.resolve.id = 0]_vars

\* the second run of a session: the store holds the rows and records the
\* first run left, the create-calendar call for <<"B">> has exhausted its
\* retries, and the pass of <<"B">> is over
C39_Witness ==
    /\ run = "second"
    /\ pc = "idle"
    /\ dbCalendars # {}
    /\ dbEvents # <<>>
    /\ obs.last = [course |-> <<"B">>, kind |-> "runtime"]
    /\ obs.createCall
    /\ obs.resolve.id = 0
    /\ obs.passCreates = <<>>
    /\ \A c \in dbCalendars : c.summary # <<"B">>

\* the sync run has printed 'Sync run complete' (line 919): it is over and
\* the loop has been through every category
RunComplete == pc = "idle" /\ Len(obs.attempted) = Cardinality(CategoryNames)

\* C40: a sync run that has been started reaches 'Sync run complete',
\* whatever remote calls fail on the way.
C40_RunReachesItsEnd ==
    \A r \in {"first", "second"} :
       [](( pc # "idle" /\ run = r) => <>(run = r /\ RunComplete))

\* What does hold under SpecLive: every sync run that has been started comes
\* to an end, and a run that has entered the loop over the categories
\* reaches 'Sync run complete'.
RunTerminates == (pc # "idle") ~> (pc = "idle")

LoopReachesItsEnd == (pc \in {"course", "refresh", "upload"}) ~> RunComplete

====
